---- MODULE Spec2Model ----
(***************************************************************************)
(* Verification model of scikit-fda: the basis smoother                    *)
(* (skfda/preprocessing/smoothing/_basis.py) and functional PCA            *)
(* (skfda/preprocessing/dim_reduction/projection/_fpca.py).                *)
(*                                                                         *)
(* Numbers are exact rationals <<n, d>> (d > 0, lowest terms); a matrix is *)
(* a sequence of rows.  An absent optional value (None, an attribute that  *)
(* was never set) is the empty sequence <<>>.                              *)
(***************************************************************************)
EXTENDS Integers, Sequences, FiniteSets, TLC

\* ------------------------------------------------------------------ bounds
\* sample coordinates are drawn from 0..MaxCoord
MaxCoord == 1
\* an axis holds at most MaxPoints sample points
MaxPoints == 2
\* observed values are drawn from 0..MaxVal
MaxVal == 1
\* a data set holds at most MaxSamples curves
MaxSamples == 1
\* the life of one estimator is followed for at most MaxCalls calls
MaxCalls == 3
\* a sample handed to functional PCA holds at most MaxCurves curves
MaxCurves == 2
\* n_components is drawn from 1..MaxComponents
MaxComponents == 3
\* singular values are drawn from 0..MaxSingular
MaxSingular == 1
\* the grids on which the quadrature weights are studied have at most
\* MaxGridPoints points with coordinates in 0..MaxGridCoord
MaxGridPoints == 4
MaxGridCoord == 4
\* a Fourier basis is asked for 1..MaxNBasis functions, on a domain with
\* bounds in 0..MaxDomain, and evaluated at no more than MaxEvalPoints points
MaxNBasis == 4
MaxDomain == 2
MaxEvalPoints == 2
\* a Fourier basis is followed for at most MaxBasisCalls calls
MaxBasisCalls == 2
\* the largest derivative order of one call
MaxOrder == 4
\* a display draws at most MaxInstances instances, and a MultipleDisplay
\* holds at most MaxDisplays displays
MaxInstances == 3
MaxDisplays == 3
\* parameters take the values 0..MaxAttr; a call passes at most MaxKeywords
\* keyword arguments
MaxAttr == 1
MaxKeywords == 2
\* the statistics are given up to MaxStatSamples samples and weights in
\* 0..MaxWeight; oneway_anova up to MaxGroups groups
MaxStatSamples == 3
MaxWeight == 2
MaxGroups == 3
\* set_alpha(1) and set_alpha(0.1), in tenths
Opaque == 10
Faint == 1

\* ------------------------------------------------------- exact arithmetic
Abs(x) == IF x < 0 THEN -x ELSE x

RECURSIVE Gcd(_, _)
Gcd(a, b) == IF b = 0 THEN a ELSE Gcd(b, a % b)

\* the rational n/d (d # 0) in lowest terms with a positive denominator
Rat(n, d) ==
    LET s == IF d < 0 THEN -1 ELSE 1
        g == Gcd(Abs(n), Abs(d))
    IN  <<(s * n) \div g, (s * d) \div g>>

RInt(n) == <<n, 1>>
RZero == <<0, 1>>
RAdd(p, q) == Rat(p[1] * q[2] + q[1] * p[2], p[2] * q[2])
RSub(p, q) == Rat(p[1] * q[2] - q[1] * p[2], p[2] * q[2])
RMul(p, q) == Rat(p[1] * q[1], p[2] * q[2])
RDiv(p, q) == Rat(p[1] * q[2], p[2] * q[1])
RNeg(p) == <<-p[1], p[2]>>

\* integer square root of a perfect square
ISqrt(n) == CHOOSE r \in 0..n : r * r = n
IsSquare(n) == \E r \in 0..n : r * r = n
RSqrt(p) == <<ISqrt(p[1]), ISqrt(p[2])>>

RECURSIVE RSum(_, _)
RSum(f, n) == IF n = 0 THEN RZero ELSE RAdd(RSum(f, n - 1), f[n])

\* ----------------------------------------------------------------- matrices
Rows(M) == Len(M)
Cols(M) == IF Len(M) = 0 THEN 0 ELSE Len(M[1])

IntMatrix(M) == [i \in 1..Len(M) |-> [j \in 1..Len(M[i]) |-> RInt(M[i][j])]]
ZeroMatrix(r, c) == [i \in 1..r |-> [j \in 1..c |-> RZero]]
Diag(v) == [i \in 1..Len(v) |-> [j \in 1..Len(v) |-> IF i = j THEN v[i] ELSE RZero]]
Transpose(M) == [j \in 1..Cols(M) |-> [i \in 1..Rows(M) |-> M[i][j]]]

\* numpy's A @ B, defined when Cols(A) = Rows(B)
MatMul(A, B) ==
    [i \in 1..Rows(A) |->
        [j \in 1..Cols(B) |->
            RSum([l \in 1..Cols(A) |-> RMul(A[i][l], B[l][j])], Cols(A))]]

MatAdd(A, B) == [i \in 1..Rows(A) |-> [j \in 1..Cols(A) |-> RAdd(A[i][j], B[i][j])]]
IsZeroMatrix(M) == \A i \in 1..Rows(M) : \A j \in 1..Cols(M) : M[i][j] = RZero

DropIndex(s, k) == [i \in 1..(Len(s) - 1) |-> IF i < k THEN s[i] ELSE s[i + 1]]
Minor(M, r, c) == [i \in 1..(Rows(M) - 1) |-> DropIndex(DropIndex(M, r)[i], c)]

RECURSIVE Det(_)
Det(M) ==
    IF Rows(M) = 0 THEN RInt(1)
    ELSE RSum([j \in 1..Cols(M) |->
                 RMul(IF j % 2 = 1 THEN M[1][j] ELSE RNeg(M[1][j]),
                      Det(Minor(M, 1, j)))], Cols(M))

IsSquareMatrix(M) == Rows(M) = Cols(M)
IsSingular(M) == Det(M) = RZero

\* the inverse of a non-singular square matrix (adjugate over determinant)
Inverse(M) ==
    LET d == Det(M)
    IN  [i \in 1..Rows(M) |->
            [j \in 1..Rows(M) |->
                RDiv(RMul(IF (i + j) % 2 = 0 THEN RInt(1) ELSE RInt(-1),
                          Det(Minor(M, j, i))), d)]]

\* numpy.linalg.solve(A, B) for a non-singular square A
LinSolve(A, B) == MatMul(Inverse(A), B)

\* ------------------------------------------------- outcomes of a call
\* a call either returns a value or raises an exception of class `status`
Ok(v) == [status |-> "ok", msg |-> "", val |-> v]
Err(cls, m) == [status |-> cls, msg |-> m, val |-> <<>>]

\* ------------------------------------------------------------ the basis
\* The smoother is exercised with monomial bases 1, t, ..., t^(n_basis-1)
\* over DomainRange; a basis is identified by its n_basis.
DomainRange == <<0, 4>>
BasisChoices == {1, 2}

RECURSIVE Pow(_, _)
Pow(t, e) == IF e = 0 THEN 1 ELSE t * Pow(t, e - 1)

\* _cartesian_product(axes): one row per grid point ('ij' order), one column
\* per coordinate
RECURSIVE CartesianProduct(_)
CartesianProduct(axes) ==
    IF Len(axes) = 0 THEN << <<>> >>
    ELSE LET rest == CartesianProduct(Tail(axes))
             first == Head(axes)
         IN  [q \in 1..(Len(first) * Len(rest)) |->
                <<first[((q - 1) \div Len(rest)) + 1]>>
                    \o rest[((q - 1) % Len(rest)) + 1]]

\* number of grid points of a tuple of axes
RECURSIVE GridSize(_)
GridSize(axes) == IF Len(axes) = 0 THEN 1 ELSE Len(Head(axes)) * GridSize(Tail(axes))

\* Basis.evaluate on points of a one-dimensional domain: n_basis rows, one
\* column per point
Evaluate(n_basis, points) ==
    [j \in 1..n_basis |-> [q \in 1..Len(points) |-> RInt(Pow(points[q][1], j - 1))]]

\* a basis over an interval evaluates points of exactly one coordinate
CanEvaluate(axes) == Len(axes) = 1

\* basis.evaluate(_cartesian_product(points)).reshape((n_basis, -1)).T :
\* each basis function in a column
BasisValues(n_basis, axes) == Transpose(Evaluate(n_basis, CartesianProduct(axes)))

\* compute_penalty_matrix(basis, regularization_parameter, regularization):
\* lambda * R with R_ij the integral over the domain of D^q phi_i * D^q phi_j,
\* q = regularization[1] = 1; no penalty when regularization is None or lambda is 0
PenaltyMatrix(n_basis, smoothing_parameter, regularization) ==
    IF regularization = <<>> \/ smoothing_parameter = 0
    THEN ZeroMatrix(n_basis, n_basis)
    ELSE [i \in 1..n_basis |-> [j \in 1..n_basis |->
            IF i >= 2 /\ j >= 2
            THEN Rat(smoothing_parameter * (i - 1) * (j - 1)
                       * (Pow(DomainRange[2], i + j - 3) - Pow(DomainRange[1], i + j - 3)),
                     i + j - 3)
            ELSE RZero]]

\* ----------------------------------------------------------- the solvers
\* _Cholesky.__call__ .  common_matrix is a view of basis_values (its
\* transpose), so `common_matrix @= weight_matrix` either raises (numpy
\* without in-place matmul) or writes W'Phi through to basis_values before
\* left_matrix is formed from it.
CholeskyBasisValuesAfter(basis_values, weight_matrix) ==
    IF weight_matrix # <<>>
    THEN Transpose(MatMul(Transpose(basis_values), weight_matrix))
    ELSE basis_values

CholeskyCall(basis_values, weight_matrix, data_matrix, penalty_matrix, inplace) ==
    IF weight_matrix # <<>> /\ ~inplace
    THEN Err("TypeError", "in-place matmul")
    ELSE IF weight_matrix # <<>> /\ Rows(basis_values) # Rows(weight_matrix)
    THEN Err("ValueError", "matmul shapes")
    ELSE LET common_matrix == IF weight_matrix # <<>>
                              THEN MatMul(Transpose(basis_values), weight_matrix)
                              ELSE Transpose(basis_values)
             right_matrix == MatMul(common_matrix, data_matrix)
             left_matrix == MatAdd(
                 MatMul(common_matrix,
                        CholeskyBasisValuesAfter(basis_values, weight_matrix)),
                 penalty_matrix)
         IN  \* cho_factor fails unless left_matrix is positive definite
             IF IsSingular(left_matrix)
             THEN Err("LinAlgError", "cho_factor")
             ELSE Ok(Transpose(LinSolve(left_matrix, right_matrix)))

RLeq(p, q) == p[1] * q[2] <= q[1] * p[2]
RMax(p, q) == IF RLeq(p, q) THEN q ELSE p

\* np.linalg.eigh of a diagonal matrix: eigenvalues ascending, eigenvector
\* columns the matching unit vectors.  order[i] is the diagonal index of the
\* i-th smallest eigenvalue.
EighOrder(M) ==
    CHOOSE f \in [1..Rows(M) -> 1..Rows(M)] :
        /\ \A i, j \in 1..Rows(M) : i # j => f[i] # f[j]
        /\ \A i, j \in 1..Rows(M) :
              i < j => /\ RLeq(M[f[i]][f[i]], M[f[j]][f[j]])
                       /\ (M[f[i]][f[i]] = M[f[j]][f[j]] => f[i] < f[j])

\* scipy.linalg.cholesky(W): upper U with U'U = W, for a diagonal W
CholUpper(W) == [i \in 1..Rows(W) |-> [j \in 1..Cols(W) |-> RSqrt(W[i][j])]]

\* q, r = np.linalg.qr(B); np.linalg.solve(r, q.T @ D): the least-squares
\* solution (B'B)^-1 B'D when B has full column rank; r is not square when B
\* has fewer rows than columns and singular when B is rank deficient.
QrSolve(B, D) ==
    IF Rows(B) < Cols(B) THEN Err("LinAlgError", "r not square")
    ELSE IF IsSingular(MatMul(Transpose(B), B)) THEN Err("LinAlgError", "singular r")
    ELSE Ok(LinSolve(MatMul(Transpose(B), B), MatMul(Transpose(B), D)))

\* the rows _QR appends to the basis matrix: (v @ diag(sqrt(max(w, 0)))).T
\* with w, v the eigen-decomposition of the penalty, largest eigenvalue first
QrPenaltyRows(penalty_matrix) ==
    LET n == Rows(penalty_matrix)
        order == EighOrder(penalty_matrix)
        \* w = w[::-1], v = v[:, ::-1]
        w == [i \in 1..n |-> penalty_matrix[order[n + 1 - i]][order[n + 1 - i]]]
        v == [r \in 1..n |-> [c \in 1..n |->
                IF order[n + 1 - c] = r THEN RInt(1) ELSE RZero]]
        clipped == [i \in 1..n |-> RMax(w[i], RZero)]
        root == MatMul(v, Diag([i \in 1..n |-> RSqrt(clipped[i])]))
    IN  Transpose(root)

\* a _QR that augments whatever the penalty
QrAugmentsAlways(penalty_matrix) == TRUE

\* `if not np.all(penalty_matrix == 0)`
QrAugments(penalty_matrix) == ~IsZeroMatrix(penalty_matrix)

QrBasisValues(basis_values, weight_matrix, penalty_matrix) ==
    LET weighted == IF weight_matrix # <<>>
                    THEN MatMul(CholUpper(weight_matrix), basis_values)
                    ELSE basis_values
    IN  IF QrAugments(penalty_matrix)
        THEN weighted \o QrPenaltyRows(penalty_matrix)
        ELSE weighted

QrDataMatrix(data_matrix, weight_matrix, penalty_matrix) ==
    LET weighted == IF weight_matrix # <<>>
                    THEN MatMul(CholUpper(weight_matrix), data_matrix)
                    ELSE data_matrix
    IN  IF QrAugments(penalty_matrix)
        THEN weighted \o ZeroMatrix(Rows(penalty_matrix), Cols(data_matrix))
        ELSE weighted

\* _QR.__call__
QrCall(basis_values, weight_matrix, data_matrix, penalty_matrix) ==
    IF weight_matrix # <<>> /\ Rows(weight_matrix) # Rows(basis_values)
    THEN Err("ValueError", "matmul shapes")
    ELSE LET res == QrSolve(
                 QrBasisValues(basis_values, weight_matrix, penalty_matrix),
                 QrDataMatrix(data_matrix, weight_matrix, penalty_matrix))
         IN  IF res.status = "ok" THEN Ok(Transpose(res.val)) ELSE res

\* BasisSmoother._coef_matrix(input_points) for the configuration p
CoefMatrix(p, input_points, inplace) ==
    IF ~CanEvaluate(input_points) THEN Err("ValueError", "evaluate")
    ELSE LET basis_values_input == BasisValues(p.basis, input_points)
         IN  IF p.weights # <<>> /\ Rows(p.weights) # Rows(basis_values_input)
             THEN Err("ValueError", "matmul shapes")
             ELSE LET ols_matrix == MatAdd(
                          IF p.weights # <<>>
                          THEN MatMul(MatMul(Transpose(basis_values_input), p.weights),
                                      basis_values_input)
                          ELSE MatMul(Transpose(basis_values_input), basis_values_input),
                          PenaltyMatrix(p.basis, p.smoothing_parameter, p.regularization))
                      right_side == IF p.weights # <<>>
                                    THEN MatMul(Transpose(basis_values_input), p.weights)
                                    ELSE Transpose(basis_values_input)
                  IN  \* right_side @= self.weights
                      IF p.weights # <<>> /\ ~inplace
                      THEN Err("TypeError", "in-place matmul")
                      ELSE IF IsSingular(ols_matrix)
                      THEN Err("LinAlgError", "singular")
                      ELSE Ok(LinSolve(ols_matrix, right_side))

\* BasisSmoother._hat_matrix(input_points, output_points)
HatMatrix(p, input_points, output_points, inplace) ==
    IF ~CanEvaluate(output_points) THEN Err("ValueError", "evaluate")
    ELSE LET coef == CoefMatrix(p, input_points, inplace)
         IN  IF coef.status # "ok" THEN coef
             ELSE Ok(MatMul(BasisValues(p.basis, output_points), coef.val))

\* ------------------------------------------------ what a call hands back
\* kind: "self" (the estimator), "basis" (an FDataBasis: basis, coefficient
\* rows in value), "grid" (an FDataGrid: sample points, data rows in value),
\* "none" (an exception was raised).  via: the solve the call executed.
Raised(cls, m, via) ==
    [status |-> cls, msg |-> m, via |-> via, kind |-> "none",
     basis |-> 0, points |-> <<>>, value |-> <<>>]

ReturnedSelf(via) ==
    [status |-> "ok", msg |-> "", via |-> via, kind |-> "self",
     basis |-> 0, points |-> <<>>, value |-> <<>>]

\* FDataBasis(basis=basis, coefficients=coefficients): one coefficient column
\* per basis function
MakeFDataBasis(n_basis, coefficients, via) ==
    IF Cols(coefficients) # n_basis
    THEN Raised("ValueError", "FDataBasis coefficients", via)
    ELSE [status |-> "ok", msg |-> "", via |-> via, kind |-> "basis",
          basis |-> n_basis, points |-> <<>>, value |-> coefficients]

\* FDataBasis.to_grid(sample_points): the curves evaluated at sample_points
ToGrid(fd, sample_points) ==
    IF ~CanEvaluate(sample_points)
    THEN Raised("ValueError", "evaluate", fd.via)
    ELSE [status |-> "ok", msg |-> "", via |-> fd.via, kind |-> "grid",
          basis |-> 0, points |-> sample_points,
          value |-> MatMul(fd.value,
                           Evaluate(fd.basis, CartesianProduct(sample_points)))]

\* ------------------------------------------------------- BasisSmoother
\* est holds the attributes fit sets: input_points_, output_points_,
\* cached_coef_matrix (_cached_coef_matrix), cached_hat_matrix.
Unfitted ==
    [input_points_ |-> <<>>, output_points_ |-> <<>>,
     cached_coef_matrix |-> <<>>, cached_hat_matrix |-> <<>>]

RecordPoints(est, p, X) ==
    [est EXCEPT !.input_points_ = X.sample_points,
                !.output_points_ = IF p.output_points # <<>>
                                   THEN p.output_points
                                   ELSE X.sample_points]

\* _LinearSmoother.hat_matrix(): the hat matrix of the fitted points under
\* the present configuration, stored as the cache
HatMatrixCall(est, p, inplace) ==
    LET h == HatMatrix(p, est.input_points_, est.output_points_, inplace)
    IN  IF h.status = "ok"
        THEN [est |-> [est EXCEPT !.cached_hat_matrix = h.val],
              res |-> ReturnedSelf("matrix")]
        ELSE [est |-> est, res |-> Raised(h.status, h.msg, "matrix")]

\* _Matrix.fit
MatrixFit(est, p, inplace) ==
    IF p.return_basis
    THEN LET c == CoefMatrix(p, est.input_points_, inplace)
         IN  IF c.status = "ok"
             THEN [est |-> [est EXCEPT !.cached_coef_matrix = c.val],
                   res |-> ReturnedSelf("matrix")]
             ELSE [est |-> est, res |-> Raised(c.status, c.msg, "matrix")]
    ELSE HatMatrixCall(est, p, inplace)

\* BasisSmoother.fit
FitOp(est, p, X, inplace) ==
    LET recorded == RecordPoints(est, p, X)
    IN  IF p.method = "matrix"
        THEN MatrixFit(recorded, p, inplace)
        ELSE [est |-> recorded, res |-> ReturnedSelf("none")]

\* _Matrix.transform
MatrixTransform(est, p, X) ==
    IF p.return_basis
    THEN IF est.cached_coef_matrix = <<>>
         THEN Raised("AttributeError", "_cached_coef_matrix", "matrix")
         ELSE IF Cols(X.data_matrix) # Cols(est.cached_coef_matrix)
         THEN Raised("ValueError", "matmul shapes", "matrix")
         ELSE MakeFDataBasis(p.basis,
                             MatMul(X.data_matrix, Transpose(est.cached_coef_matrix)),
                             "matrix")
    ELSE \* self.hat_matrix(): self is the _Matrix strategy, which has no such method
         Raised("AttributeError", "hat_matrix", "matrix")

\* i == s on two numpy arrays followed by all(...)
AxisCompare(i, s, numpy_new) ==
    IF Len(i) = Len(s) THEN (IF i = s THEN "true" ELSE "false")
    ELSE IF Len(i) = 1
    THEN (IF \A q \in 1..Len(s) : s[q] = i[1] THEN "true" ELSE "false")
    ELSE IF Len(s) = 1
    THEN (IF \A q \in 1..Len(i) : i[q] = s[1] THEN "true" ELSE "false")
    ELSE \* shapes do not broadcast: == raises, or yields a bare False that
         \* all() cannot iterate
         IF numpy_new THEN "ValueError" ELSE "TypeError"

Min(a, b) == IF a < b THEN a ELSE b

\* assert all([all(i == s) for i, s in zip(self.input_points_, X.sample_points)])
PointsAssertion(fitted, given, numpy_new) ==
    LET dims == 1..Min(Len(fitted), Len(given))
        cmp(d) == AxisCompare(fitted[d], given[d], numpy_new)
    IN  IF \E d \in dims : cmp(d) \notin {"true", "false"}
        THEN IF numpy_new THEN "ValueError" ELSE "TypeError"
        ELSE IF \A d \in dims : cmp(d) = "true" THEN "pass"
        ELSE "AssertionError"

\* a variant of the branch that enters the strategy on a smoothing parameter
\* of zero too
BranchOnZeroSmoothing(n_points, n_basis, smoothing_parameter) ==
    IF n_points > n_basis \/ smoothing_parameter >= 0 THEN "strategy"
    ELSE IF n_points = n_basis THEN "direct"
    ELSE "underdetermined"

\* a variant of the branch that hands the square system to the strategy
BranchSquareToStrategy(n_points, n_basis, smoothing_parameter) ==
    IF n_points >= n_basis \/ smoothing_parameter > 0 THEN "strategy"
    ELSE "underdetermined"

\* which branch of fit_transform a problem with n_points observations takes
FitTransformBranch(n_points, n_basis, smoothing_parameter) ==
    IF n_points > n_basis \/ smoothing_parameter > 0 THEN "strategy"
    ELSE IF n_points = n_basis THEN "direct"
    ELSE "underdetermined"

\* the tail of fit_transform: wrap the coefficients and choose the form
Finish(est, p, coefficients, via) ==
    LET fdatabasis == MakeFDataBasis(p.basis, coefficients, via)
    IN  IF fdatabasis.status # "ok" \/ p.return_basis THEN fdatabasis
        ELSE ToGrid(fdatabasis, est.output_points_)

\* the guard at the head of BasisSmoother.transform: reading input_points_
\* and the assertion on the points
TransformGuard(est, X, numpy_new) ==
    IF est.input_points_ = <<>> THEN "AttributeError"
    ELSE PointsAssertion(est.input_points_, X.sample_points, numpy_new)

\* BasisSmoother.transform when the strategy provides transform (_Matrix)
CheckedMatrixTransform(est, p, X, numpy_new) ==
    LET guard == TransformGuard(est, X, numpy_new)
    IN  IF guard # "pass" THEN Raised(guard, "input points", "none")
        ELSE MatrixTransform(est, p, X)

\* BasisSmoother.fit_transform
FitTransformOp(est, p, X, numpy_new) ==
    LET recorded == RecordPoints(est, p, X)
        penalty_matrix == PenaltyMatrix(p.basis, p.smoothing_parameter, p.regularization)
        data_matrix == Transpose(X.data_matrix)
    IN  IF ~CanEvaluate(recorded.input_points_)
        THEN [est |-> recorded, res |-> Raised("ValueError", "evaluate", "none")]
        ELSE
        LET basis_values == BasisValues(p.basis, recorded.input_points_)
            branch == FitTransformBranch(Rows(data_matrix), p.basis, p.smoothing_parameter)
        IN  IF branch = "strategy"
            THEN IF p.method = "matrix"
                 THEN \* _Matrix.fit_transform: estimator.fit(X).transform(X)
                      LET fitted == FitOp(recorded, p, X, numpy_new)
                      IN  IF fitted.res.status # "ok" THEN fitted
                          ELSE [est |-> fitted.est,
                                res |-> CheckedMatrixTransform(fitted.est, p, X, numpy_new)]
                 ELSE LET sol == IF p.method = "cholesky"
                                 THEN CholeskyCall(basis_values, p.weights, data_matrix,
                                                   penalty_matrix, numpy_new)
                                 ELSE QrCall(basis_values, p.weights, data_matrix,
                                             penalty_matrix)
                      IN  [est |-> recorded,
                           res |-> IF sol.status # "ok"
                                   THEN Raised(sol.status, sol.msg, p.method)
                                   ELSE Finish(recorded, p, sol.val, p.method)]
            ELSE IF branch = "direct"
            THEN [est |-> recorded,
                  res |-> IF IsSingular(basis_values)
                          THEN Raised("LinAlgError", "singular", "direct")
                          ELSE Finish(recorded, p,
                                      Transpose(LinSolve(basis_values, data_matrix)),
                                      "direct")]
            ELSE [est |-> recorded,
                  res |-> Raised("ValueError", "basis functions exceed points", "none")]

\* BasisSmoother.transform
TransformOp(est, p, X, numpy_new) ==
    IF p.method = "matrix"
    THEN [est |-> est, res |-> CheckedMatrixTransform(est, p, X, numpy_new)]
    ELSE LET guard == TransformGuard(est, X, numpy_new)
         IN  IF guard # "pass"
             THEN [est |-> est, res |-> Raised(guard, "input points", "none")]
             ELSE \* the strategy has no transform: fit_transform over the data
                  FitTransformOp(est, p, X, numpy_new)

\* ------------------------------------------------------------ the inputs
\* strictly increasing sample points along one axis
Axes ==
    {a \in UNION {[1..n -> 0..MaxCoord] : n \in 1..MaxPoints} :
        \A i \in 1..(Len(a) - 1) : a[i] < a[i + 1]}

\* the second axis of a two-dimensional grid
SecondAxes == {<<0>>}

SamplePoints == {<<a>> : a \in Axes} \cup {<<a, b>> : a \in Axes, b \in SecondAxes}

\* an FDataGrid: sample points and one row of values per curve
FDataGrids ==
    UNION {
        {[sample_points |-> sp, data_matrix |-> IntMatrix(d)] :
            d \in [1..n -> [1..GridSize(sp) -> 0..MaxVal]]} :
        sp \in SamplePoints, n \in 1..MaxSamples}

\* one data set per grid, for following an estimator over several calls:
\* the values 1, 0, 1, ... along the grid
RampGrids ==
    {X \in FDataGrids :
        /\ Rows(X.data_matrix) = 1
        /\ \A q \in 1..Cols(X.data_matrix) : X.data_matrix[1][q] = RInt(q % 2)}

NoData == [sample_points |-> <<>>, data_matrix |-> <<>>]

WeightChoices ==
    {<<>>, Diag(<<RInt(1), RInt(4)>>)}
SmoothingChoices == {0, 1}
RegularizationChoices == {<<>>, <<1>>}
OutputPointChoices == {<<>>, << <<0, 1>> >>}
MethodChoices == {"cholesky", "qr", "matrix"}

ParamChoices ==
    [basis : BasisChoices,
     smoothing_parameter : SmoothingChoices,
     weights : WeightChoices,
     regularization : RegularizationChoices,
     output_points : OutputPointChoices,
     method : MethodChoices,
     return_basis : BOOLEAN]

\* ------------------------------------------------------- functional PCA
\* A basis object: its size and its domain.  A functional data object (FData):
\* kind "basis" (an FDataBasis: basis, coefficient rows in matrix) or "grid" (an
\* FDataGrid: sample points of its one axis, data rows in matrix).
PcaBases == [n_basis : BasisChoices, domain_range : {<<0, 1>>, DomainRange}]

FDataBasisOf(b, m) ==
    [kind |-> "basis", basis |-> <<b>>, sample_points |-> <<>>, matrix |-> m]
FDataGridOf(points, m) ==
    [kind |-> "grid", basis |-> <<>>, sample_points |-> points, matrix |-> m]
NoFData == [kind |-> "none", basis |-> <<>>, sample_points |-> <<>>, matrix |-> <<>>]

\* FData.mean() and the subtraction of it from every row
ColumnMean(M, j) == RDiv(RSum([i \in 1..Rows(M) |-> M[i][j]], Rows(M)), RInt(Rows(M)))
Centered(M) == [i \in 1..Rows(M) |-> [j \in 1..Cols(M) |-> RSub(M[i][j], ColumnMean(M, j))]]

\* sklearn.decomposition.PCA(n_components=n)
SklearnPCA(n) == [n_components |-> n, fitted |-> FALSE, n_rows |-> 0, singular_values_ |-> <<>>]

\* PCA.fit on a matrix of n_samples rows and n_features columns whose singular
\* values, largest first, are `spectrum`: it keeps the first n_components
SklearnAccepts(pca, n_samples, n_features) ==
    pca.n_components <= Min(n_samples, n_features)

SklearnFit(pca, n_samples, n_features, spectrum) ==
    [pca EXCEPT !.fitted = TRUE,
                !.n_rows = pca.n_components,
                !.singular_values_ = SubSeq(spectrum, 1, pca.n_components)]

\* a variant of the eigenvalues that lists them smallest first
ComponentValuesAscending(singular_values) ==
    [i \in 1..Len(singular_values) |->
        singular_values[Len(singular_values) + 1 - i]
            * singular_values[Len(singular_values) + 1 - i]]

\* self.pca_.singular_values_ ** 2
ComponentValues(singular_values) ==
    [i \in 1..Len(singular_values) |-> singular_values[i] * singular_values[i]]

PcaReturned == [status |-> "ok", msg |-> ""]
PcaRaised(cls, m) == [status |-> cls, msg |-> m]

\* a variant of the refusal that is raised after the centering
RejectedAfterCentering(est, X, check) ==
    [est |-> est,
     X |-> IF est.centering THEN [X EXCEPT !.matrix = Centered(X.matrix)] ELSE X,
     res |-> PcaRaised("AttributeError", check)]

\* the refusal of fit: raised before anything is touched
Rejected(est, X, check) ==
    [est |-> est, X |-> X, res |-> PcaRaised("AttributeError", check)]

\* the checks at the head of both fit methods
TooManyComponents(n_components, n_samples, capacity) ==
    IF n_components > n_samples THEN "sample size"
    ELSE IF n_components > capacity THEN "capacity"
    ELSE "none"

\* FPCABasis.fit: the size of the target basis
TargetNBasis(est, X) ==
    IF est.components_basis # <<>>
    THEN est.components_basis[1].n_basis
    ELSE X.basis[1].n_basis

\* FPCABasis.fit(X); spectrum: the singular values of the whitened matrix
FpcaBasisFit(est, X, spectrum) ==
    LET n_samples == Rows(X.matrix)
        check == TooManyComponents(est.n_components, n_samples, TargetNBasis(est, X))
    IN  IF check # "none"
        THEN Rejected(est, X, check)
        ELSE
        LET \* X.coefficients -= meanfd.coefficients
            centered == IF est.centering
                        THEN [X EXCEPT !.matrix = Centered(X.matrix)]
                        ELSE X
            \* self.components_basis.domain_range = X.basis.domain_range, or
            \* self.components_basis = X.basis.copy()
            components_basis ==
                IF est.components_basis # <<>>
                THEN [est.components_basis[1] EXCEPT
                         !.domain_range = X.basis[1].domain_range]
                ELSE X.basis[1]
            \* final_matrix: one row per sample, one column per target basis function
            n_features == components_basis.n_basis
            pca == SklearnPCA(est.n_components)
            with_basis == [est EXCEPT !.components_basis = <<components_basis>>,
                                      !.pca_ = <<pca>>]
        IN  IF ~SklearnAccepts(pca, n_samples, n_features)
            THEN [est |-> with_basis, X |-> centered,
                  res |-> PcaRaised("ValueError", "n_components")]
            ELSE LET fitted == SklearnFit(pca, n_samples, n_features, spectrum)
                 IN  [est |-> [with_basis EXCEPT
                                  !.pca_ = <<fitted>>,
                                  !.component_values_ =
                                      <<ComponentValues(fitted.singular_values_)>>,
                                  !.components_ =
                                      <<[kind |-> "basis",
                                         basis |-> <<components_basis>>,
                                         sample_points |-> <<>>,
                                         n_rows |-> fitted.n_rows,
                                         n_cols |-> n_features]>>],
                      X |-> centered,
                      res |-> PcaReturned]

\* a variant of the weights that gives the first point a whole interval
WeightsWholeFirstInterval(points) ==
    LET n == Len(points)
        differences == [i \in 1..(n - 1) |-> points[i + 1] - points[i]]
        inner == [i \in 1..(n - 1) |->
                    Rat(differences[i] + (IF i + 1 <= n - 1 THEN differences[i + 1] ELSE 0), 2)]
    IN  <<RInt(differences[1])>> \o inner

\* the weights FPCAGrid.fit computes when none are stored: the trapezoidal rule
TrapezoidWeights(points) ==
    LET n == Len(points)
        differences == [i \in 1..(n - 1) |-> points[i + 1] - points[i]]
        \* sum(differences[i:i + 2]) / 2 for i in range(len(differences))
        inner == [i \in 1..(n - 1) |->
                    Rat(differences[i] + (IF i + 1 <= n - 1 THEN differences[i + 1] ELSE 0), 2)]
    IN  <<Rat(differences[1], 2)>> \o inner

\* `not self.weights`: None and empty sequences are false; an array of more
\* than one element has no truth value
WeightsTruth(weights) ==
    IF weights.kind = "none" \/ Len(weights.val) = 0 THEN "false"
    ELSE IF weights.kind = "array" /\ Len(weights.val) > 1 THEN "ValueError"
    ELSE IF weights.kind = "array" /\ weights.val[1] = RZero THEN "false"
    ELSE "true"

\* FPCAGrid.fit(X); spectrum: the singular values of the weighted data matrix
FpcaGridFit(est, X, spectrum) ==
    LET n_samples == Rows(X.matrix)
        n_points == Cols(X.matrix)
        check == TooManyComponents(est.n_components, n_samples, n_points)
    IN  IF check # "none"
        THEN Rejected(est, X, check)
        ELSE IF n_samples = 1 \/ n_points = 1
        THEN \* np.squeeze drops the axis: fd_data.shape is not a pair
             [est |-> est, X |-> X, res |-> PcaRaised("ValueError", "unpack shape")]
        ELSE
        LET \* fd_data is a view of X.data_matrix: fd_data -= mean writes through
            centered == IF est.centering
                        THEN [X EXCEPT !.matrix = Centered(X.matrix)]
                        ELSE X
            truth == WeightsTruth(est.weights)
        IN  IF truth = "ValueError"
            THEN [est |-> est, X |-> centered,
                  res |-> PcaRaised("ValueError", "truth value of an array")]
            ELSE
            LET weights == IF truth = "false"
                           THEN [kind |-> "array", val |-> TrapezoidWeights(X.sample_points)]
                           ELSE est.weights
                with_weights == [est EXCEPT !.weights = weights]
                pca == SklearnPCA(est.n_components)
            IN  IF Len(weights.val) # n_points
                THEN [est |-> with_weights, X |-> centered,
                      res |-> PcaRaised("ValueError", "matmul shapes")]
                ELSE IF ~SklearnAccepts(pca, n_samples, n_points)
                THEN [est |-> [with_weights EXCEPT !.pca_ = <<pca>>], X |-> centered,
                      res |-> PcaRaised("ValueError", "n_components")]
                ELSE LET fitted == SklearnFit(pca, n_samples, n_points, spectrum)
                     IN  [est |-> [with_weights EXCEPT
                                      !.pca_ = <<fitted>>,
                                      !.components_ =
                                          <<[kind |-> "grid",
                                             basis |-> <<>>,
                                             sample_points |-> X.sample_points,
                                             n_rows |-> fitted.n_rows,
                                             n_cols |-> n_points]>>,
                                      !.component_values_ =
                                          <<ComponentValues(fitted.singular_values_)>>],
                          X |-> centered,
                          res |-> PcaReturned]

\* the samples handed to PCA
SampleMatrices(n_cols) ==
    UNION {{IntMatrix(d) : d \in [1..n -> [1..n_cols -> 0..MaxVal]]} : n \in 1..MaxCurves}

BasisSamples ==
    UNION {{FDataBasisOf(b, m) : m \in SampleMatrices(b.n_basis)} : b \in PcaBases}

GridSamples ==
    UNION {{FDataGridOf(a, m) : m \in SampleMatrices(Len(a))} : a \in Axes}

\* singular values, largest first, of a matrix of rank at most n
Spectra(n) ==
    {sv \in [1..n -> 0..MaxSingular] : \A i \in 1..(n - 1) : sv[i] >= sv[i + 1]}

HalfHalf == <<Rat(1, 2), Rat(1, 2)>>

FpcaChoices ==
    [variant : {"basis"},
     n_components : 1..MaxComponents,
     centering : BOOLEAN,
     components_basis : {<<>>} \cup {<<b>> : b \in PcaBases},
     weights : {[kind |-> "none", val |-> <<>>]},
     pca_ : {<<>>}, components_ : {<<>>}, component_values_ : {<<>>}]
    \cup
    [variant : {"grid"},
     n_components : 1..MaxComponents,
     centering : BOOLEAN,
     components_basis : {<<>>},
     weights : {[kind |-> "none", val |-> <<>>],
                [kind |-> "list", val |-> HalfHalf],
                [kind |-> "array", val |-> HalfHalf]},
     pca_ : {<<>>}, components_ : {<<>>}, component_values_ : {<<>>}]

\* ---- transform of the PCA estimators
\* what a transform returned: a plain matrix or an FDataGrid, of a shape
Scores(kind, shape) == [status |-> "ok", msg |-> "", kind |-> kind, shape |-> shape]
NoScores == [status |-> "ok", msg |-> "", kind |-> "none", shape |-> <<>>]
ScoresRaised(cls, m) == [status |-> cls, msg |-> m, kind |-> "none", shape |-> <<>>]

\* FPCABasis.transform(X): X.inner_product(self.components_), one row per
\* sample of X and one column per component
FpcaBasisTransform(est, X) ==
    IF est.components_ = <<>>
    THEN ScoresRaised("AttributeError", "components_")
    ELSE IF X.basis[1].domain_range # est.components_[1].basis[1].domain_range
    THEN ScoresRaised("ValueError", "domain ranges")
    ELSE Scores("matrix", <<Rows(X.matrix), est.components_[1].n_rows>>)

\* np.squeeze on a shape: the axes of length one are dropped
Squeeze(shape) == SelectSeq(shape, LAMBDA d : d # 1)

\* np.transpose on a shape: the axes are reversed
TransposeShape(shape) == [i \in 1..Len(shape) |-> shape[Len(shape) + 1 - i]]

\* the shape of a @ b, or <<-1>> where numpy raises
MatMulShape(a, b) ==
    IF Len(a) = 0 \/ Len(b) = 0 THEN <<-1>>
    ELSE IF a[Len(a)] # b[1] THEN <<-1>>
    ELSE SubSeq(a, 1, Len(a) - 1) \o SubSeq(b, 2, Len(b))

\* np.atleast_2d on a shape, as FDataGrid.__init__ applies it
AtLeast2d(shape) ==
    IF Len(shape) = 0 THEN <<1, 1>>
    ELSE IF Len(shape) = 1 THEN <<1, shape[1]>>
    ELSE shape

\* FPCAGrid.transform(X): X.copy(data_matrix=squeeze(X.data_matrix) @
\* transpose(squeeze(components_.data_matrix)))
FpcaGridTransform(est, X) ==
    IF est.components_ = <<>>
    THEN ScoresRaised("AttributeError", "components_")
    ELSE
    LET data == Squeeze(<<Rows(X.matrix), Cols(X.matrix), 1>>)
        components == Squeeze(<<est.components_[1].n_rows, est.components_[1].n_cols, 1>>)
        product == MatMulShape(data, TransposeShape(components))
        \* X.copy builds an FDataGrid on the sample points of X
        stored == AtLeast2d(product)
    IN  IF product = <<-1>>
        THEN ScoresRaised("ValueError", "matmul shapes")
        ELSE IF stored[2] # Len(X.sample_points)
        THEN ScoresRaised("ValueError", "data_matrix and sample_points")
        ELSE Scores("FDataGrid", stored)

\* the samples handed to transform
RampMatrix(n, c) == IntMatrix([i \in 1..n |-> [j \in 1..c |-> (i + j) % (MaxVal + 1)]])

BasisScoreSamples ==
    {FDataBasisOf(b, RampMatrix(n, b.n_basis)) : b \in PcaBases, n \in 1..MaxCurves}

GridScoreSamples ==
    {FDataGridOf(a, RampMatrix(n, Len(a))) : a \in Axes, n \in 1..MaxCurves}

\* ---------------------------------------------------------- Fourier basis
\* A basis object: kind, domain_range <<low, high>>, n_basis and, for a Fourier
\* basis, _period (<<>> for None, else <<period>>, a rational).
BasisObject(kind, domain_range, n_basis, period) ==
    [kind |-> kind, domain_range |-> domain_range, n_basis |-> n_basis, _period |-> period]

\* a variant of the constructor that keeps the n_basis it is given
FourierInitAsGiven(domain_range, n_basis, period) ==
    BasisObject("Fourier", domain_range, n_basis, period)

\* Fourier.__init__: an even n_basis is incremented by one
FourierInit(domain_range, n_basis, period) ==
    BasisObject("Fourier", domain_range, n_basis + 1 - (n_basis % 2), period)

\* the period property: the length of the domain when _period is None
Period(b) ==
    IF b._period = <<>>
    THEN RInt(b.domain_range[2] - b.domain_range[1])
    ELSE b._period[1]

FourierReturned(b, m) == [status |-> "ok", msg |-> "", basis |-> b, matrix |-> m]
FourierRaised(cls, m) == [status |-> cls, msg |-> m, basis |-> <<>>, matrix |-> <<>>]

\* One entry of the evaluation matrix, kept symbolic: the function applied, the
\* multiple of omega in its phase and the point; every entry is divided by the
\* same normalization sqrt(period / 2).
Entry(fn, freq, point) == [fn |-> fn, freq |-> freq, point |-> point]

\* functions = [np.sin, np.cos]
Functions == <<"sin", "cos">>

\* Fourier._evaluate(eval_points)
FourierEvaluate(b, eval_points) ==
    LET m == Len(eval_points)
        pairs == (b.n_basis - 1) \div 2
        \* seq = 1 + np.arange((n_basis - 1) // 2)
        seq == [k \in 1..pairs |-> k]
        \* res[k, i, p] after the einsum and after functions[i] was applied in
        \* place to res[:, i, :], laid out in memory row by row
        flat == [f \in 1..(pairs * 2 * m) |->
                    Entry(Functions[(((f - 1) \div m) % 2) + 1],
                          seq[((f - 1) \div (2 * m)) + 1],
                          eval_points[((f - 1) % m) + 1])]
        \* res.reshape(-1, len(eval_points))
        reshaped == [r \in 1..(Len(flat) \div m) |->
                        [c \in 1..m |-> flat[(r - 1) * m + c]]]
        constant_basis == <<[c \in 1..m |-> Entry("const", 0, 0)]>>
    IN  IF m = 0
        THEN \* the unknown dimension of reshape(-1, 0) cannot be inferred
             FourierRaised("ValueError", "cannot reshape array of size 0")
        ELSE FourierReturned(<<>>, constant_basis \o reshaped)

\* Fourier._derivative_basis_and_coefs: the basis it returns, self.copy()
DerivativeBasis(b) == FourierReturned(<<b>>, <<>>)

\* One coefficient, kept symbolic: sign * c[src] * (freq * 2 pi / period)^pow,
\* with c the coefficients the differentiation started from; sign 0 is the
\* coefficient 0.
Term(sign, src, freq, period, pow) ==
    [sign |-> sign, src |-> src, freq |-> freq, period |-> period, pow |-> pow]
ZeroTerm == Term(0, 0, 0, RZero, 0)

\* the coefficients of one sample before any differentiation
FreshCoefs(n_basis) == [k \in 1..n_basis |-> Term(1, k, 0, RZero, 0)]

\* a variant in which cosines take the sign of sines
DerivativeCoefsOneSign(b, coefs, order) ==
    LET sin_sign == IF (order \div 2) % 2 = 0 THEN 1 ELSE -1
        Scaled(sign, c, n) ==
            IF c.sign = 0 THEN ZeroTerm
            ELSE Term(sign * c.sign, c.src, n, Period(b), c.pow + order)
    IN  [k \in 1..b.n_basis |->
            LET j == k - 1
                n == (j + 1) \div 2
            IN  IF j = 0 THEN ZeroTerm
                ELSE IF order % 2 = 0 THEN Scaled(sin_sign, coefs[k], n)
                ELSE IF j % 2 = 0 THEN Scaled(sin_sign, coefs[k - 1], n)
                ELSE Scaled(sin_sign, coefs[k + 1], n)]

\* Fourier._derivative_basis_and_coefs: the coefficients it returns for one
\* sample row.  Column j = k - 1 (from 0) is the constant for j = 0, the sine
\* of frequency (j + 1) / 2 for odd j and the cosine of frequency j / 2 for
\* even j >= 2; deriv_factor is (n * omega)^order, omega = 2 pi / period.
DerivativeCoefs(b, coefs, order) ==
    LET cos_sign == IF ((order + 1) \div 2) % 2 = 0 THEN 1 ELSE -1
        sin_sign == IF (order \div 2) % 2 = 0 THEN 1 ELSE -1
        Scaled(sign, c, n) ==
            IF c.sign = 0 THEN ZeroTerm
            ELSE Term(sign * c.sign, c.src, n, Period(b), c.pow + order)
    IN  [k \in 1..b.n_basis |->
            LET j == k - 1
                n == (j + 1) \div 2
            IN  IF j = 0 THEN ZeroTerm
                ELSE IF order % 2 = 0
                THEN \* deriv_coefs[:, 1::2] = sin_sign * coefs[:, 1::2] * deriv_factor
                     \* deriv_coefs[:, 2::2] = cos_sign * coefs[:, 2::2] * deriv_factor
                     IF j % 2 = 1 THEN Scaled(sin_sign, coefs[k], n)
                     ELSE Scaled(cos_sign, coefs[k], n)
                ELSE \* deriv_coefs[:, 2::2] = sin_sign * coefs[:, 1::2] * deriv_factor
                     \* deriv_coefs[:, 1::2] = cos_sign * coefs[:, 2::2] * deriv_factor
                     IF j % 2 = 0 THEN Scaled(sin_sign, coefs[k - 1], n)
                     ELSE Scaled(cos_sign, coefs[k + 1], n)]

\* Basis.default_basis_of_product(one, other): the generic product basis
DefaultBasisOfProduct(one, other) ==
    BasisObject("product", one.domain_range, one.n_basis + other.n_basis, <<>>)

\* Fourier.rbasis_of_product and the rbasis_of_product of the other bases
RBasisOfProduct(b, other) == DefaultBasisOfProduct(other, b)

\* a variant of the product that combines Fourier bases of any two periods
BasisOfProductAnyPeriod(b, other) ==
    IF b.domain_range # other.domain_range
    THEN FourierRaised("ValueError", "Ranges are not equal.")
    ELSE IF other.kind = "Fourier"
    THEN FourierReturned(
             <<FourierInit(b.domain_range, b.n_basis + other.n_basis - 1, <<Period(b)>>)>>,
             <<>>)
    ELSE FourierReturned(<<RBasisOfProduct(other, b)>>, <<>>)

\* Fourier.basis_of_product(other)
BasisOfProduct(b, other) ==
    IF b.domain_range # other.domain_range
    THEN FourierRaised("ValueError", "Ranges are not equal.")
    ELSE IF other.kind = "Fourier" /\ Period(b) = Period(other)
    THEN FourierReturned(
             <<FourierInit(b.domain_range, b.n_basis + other.n_basis - 1, <<Period(b)>>)>>,
             <<>>)
    ELSE FourierReturned(<<RBasisOfProduct(other, b)>>, <<>>)

\* Basis.rescale(domain_range): a basis of the same type and size on the new
\* domain (on the old one when domain_range is None)
BasisRescale(b, domain_range) ==
    FourierInit(IF domain_range = <<>> THEN b.domain_range ELSE domain_range[1],
                b.n_basis, <<>>)

\* a variant of rescale that leaves the new basis the period it was built with
RescaleWithoutPeriod(b, domain_range, rescale_period) ==
    FourierReturned(<<BasisRescale(b, domain_range)>>, <<>>)

\* Fourier.rescale(domain_range, rescale_period)
FourierRescale(b, domain_range, rescale_period) ==
    LET rescale_basis == BasisRescale(b, domain_range)
        domain_rescaled == rescale_basis.domain_range
        domain == b.domain_range
        period == IF rescale_period = FALSE
                  THEN Period(b)
                  ELSE RDiv(RMul(Period(b), RInt(domain_rescaled[2] - domain_rescaled[1])),
                            RInt(domain[2] - domain[1]))
    IN  FourierReturned(<<[rescale_basis EXCEPT !._period = <<period>>]>>, <<>>)

\* the inputs
FourierDomains == {d \in (0..MaxDomain) \X (0..MaxDomain) : d[1] < d[2]}
PeriodChoices == {<<>>, <<RInt(1)>>, <<RInt(2)>>}
FourierBases ==
    {FourierInit(d, n, per) : d \in FourierDomains, n \in 1..MaxNBasis, per \in PeriodChoices}
OtherBases ==
    FourierBases \cup {BasisObject("Monomial", d, n, <<>>) : d \in FourierDomains, n \in 1..2}
EvalPoints == UNION {[1..m -> 0..MaxVal] : m \in 0..MaxEvalPoints}
NoBasis == BasisObject("none", <<0, 1>>, 0, <<>>)

\* ------------------------------------------------------ MultipleDisplay
\* A Display is known by its number of instances and by where it draws them:
\* the artist of instance i sits at Offsets(disp, i).  An artist is known by
\* the display (its axes) and the instance it belongs to.
Layouts == {"row", "column", "reversed"}
DisplayChoices == [n : 2..MaxInstances, layout : Layouts]

\* np.ma.getdata(artist.get_offsets())[0] for the artist of instance i
Offsets(disp, i) ==
    IF disp.layout = "row" THEN <<i, 0>>
    ELSE IF disp.layout = "column" THEN <<0, i>>
    ELSE <<disp.n + 1 - i, 0>>

Artist(d, i) == [disp |-> d, inst |-> i]
NoArtist == Artist(0, 0)

DReturned == [status |-> "ok"]
DRaised(cls) == [status |-> cls]

\* MultipleDisplay.__init__
MultipleDisplayInit(displays) ==
    [displays |-> displays,
     point_clicked |-> <<>>,
     num_graphs |-> Len(displays),
     length_data |-> displays[1].n,
     plotted |-> FALSE,
     picked_disp |-> <<>>,
     alpha |-> <<>>]

\* MultipleDisplay.add_displays
AddDisplays(self, displays) == [self EXCEPT !.displays = @ \o displays]

\* MultipleDisplay.plot: the lengths are compared only when num_graphs > 1;
\* every display is then plotted, its artists at alpha 1, and pick connected
PlotOp(self) ==
    IF /\ self.num_graphs > 1
       /\ \E d \in 2..Len(self.displays) : self.displays[d].n # self.length_data
    THEN [self |-> self, res |-> DRaised("ValueError")]
    ELSE [self |-> [self EXCEPT
                      !.plotted = TRUE,
                      !.alpha = [d \in 1..Len(self.displays) |->
                                    [i \in 1..self.displays[d].n |-> Opaque]]],
          res |-> DReturned]

\* get_display_picked: the displays at the first num_graphs axes are searched
GetDisplayPicked(self, artist) ==
    IF artist.disp <= self.num_graphs THEN <<artist.disp>> ELSE <<>>

\* `for i in range(self.length_data): ... for display in self.displays:
\* display.id_function[i].set_alpha(...)`: instance i is set to val[i] in every
\* display when applies[i]; a display with fewer than i instances has no
\* id_function[i], and the loop stops there with what it has set so far
SetAlphas(self, applies, val) ==
    LET short(i) == {d \in 1..Len(self.displays) : self.displays[d].n < i}
        failing == {i \in 1..self.length_data : applies[i] /\ short(i) # {}}
        istar == CHOOSE i \in failing : \A k \in failing : i <= k
        dstar == CHOOSE d \in short(istar) : \A e \in short(istar) : d <= e
    IN  [raised |-> failing # {},
         alpha |-> [d \in 1..Len(self.displays) |->
                      [i \in 1..self.displays[d].n |->
                          IF /\ i <= self.length_data
                             /\ applies[i]
                             /\ \/ failing = {}
                                \/ i < istar
                                \/ i = istar /\ d < dstar
                          THEN val[i]
                          ELSE self.alpha[d][i]]]]

\* MultipleDisplay.pick(event), event.artist the artist picked
PickOp(self, artist) ==
    LET n == self.length_data
        at == Offsets(self.displays[artist.disp], artist.inst)
        every == [i \in 1..n |-> TRUE]
    IN  IF self.point_clicked = <<>>
        THEN \* point_clicked and picked_disp are assigned, then
             \* reduce_points_intensity
             LET picked == GetDisplayPicked(self, artist)
                 first == [self EXCEPT !.point_clicked = <<artist>>,
                                       !.picked_disp = picked]
             IN  IF picked = <<>>
                 THEN [self |-> first, res |-> DRaised("AttributeError")]
                 ELSE LET out == SetAlphas(first,
                                   [i \in 1..n |->
                                       Offsets(self.displays[picked[1]], i) # at],
                                   [i \in 1..n |-> Faint])
                      IN  [self |-> [first EXCEPT !.alpha = out.alpha],
                           res |-> IF out.raised THEN DRaised("IndexError")
                                   ELSE DReturned]
        ELSE IF self.point_clicked = <<artist>>
        THEN \* restore_points_intensity, then point_clicked = None
             LET out == SetAlphas(self, every, [i \in 1..n |-> Opaque])
             IN  IF out.raised
                 THEN [self |-> [self EXCEPT !.alpha = out.alpha],
                       res |-> DRaised("IndexError")]
                 ELSE [self |-> [self EXCEPT !.alpha = out.alpha,
                                             !.point_clicked = <<>>],
                       res |-> DReturned]
        ELSE \* change_points_intensity(event.artist), against the display
             \* recorded by the first pick, then point_clicked = event.artist
             IF self.picked_disp = <<>>
             THEN [self |-> self, res |-> DRaised("AttributeError")]
             ELSE LET out == SetAlphas(self, every,
                               [i \in 1..n |->
                                   IF Offsets(self.displays[self.picked_disp[1]], i) = at
                                   THEN Opaque ELSE Faint])
                  IN  IF out.raised
                      THEN [self |-> [self EXCEPT !.alpha = out.alpha],
                            res |-> DRaised("IndexError")]
                      ELSE [self |-> [self EXCEPT !.alpha = out.alpha,
                                                  !.point_clicked = <<artist>>],
                            res |-> DReturned]

NoMultipleDisplay ==
    [displays |-> <<>>, point_clicked |-> <<>>, num_graphs |-> 0, length_data |-> 0,
     plotted |-> FALSE, picked_disp |-> <<>>, alpha |-> <<>>]

\* --------------------------------------------------- parameter_aliases
\* alias_assignments, in the order of the keyword arguments of the decorator:
\* each parameter with the aliases declared for it.  The decorated class
\* stores the parameters p1 and p2 its __init__ is given (default 0).
Assignment(param, aliases) == [param |-> param, aliases |-> aliases]
AliasAssignments ==
    {<<Assignment("p1", {"a1"})>>,
     <<Assignment("p1", {"a1", "a1b"})>>,
     <<Assignment("p1", {"a1"}), Assignment("p2", {"a2"})>>,
     <<Assignment("p2", {"a2"}), Assignment("p1", {"a1", "a1b"})>>}
ParameterNames == {"p1", "p2"}
KeywordNames == {"p1", "p2", "a1", "a1b", "a2"}

\* keyword arguments: at most MaxKeywords names, each with a value
KeywordChoices ==
    {kw \in SUBSET (KeywordNames \X (0..MaxAttr)) :
        /\ Cardinality(kw) <= MaxKeywords
        /\ \A x, y \in kw : x[1] = y[1] => x = y}

Names(kwargs) == {x[1] : x \in kwargs}
ValueOf(kwargs, name) == (CHOOSE x \in kwargs : x[1] = name)[2]

\* aliasing_function, the loop over alias_assignments from position k on:
\* more than one name of the same meaning raises, a single one is popped and
\* stored again under the parameter's name
RECURSIVE AliasingLoop(_, _, _)
AliasingLoop(alias_assignments, k, kwargs) ==
    IF k > Len(alias_assignments) THEN [status |-> "ok", kwargs |-> kwargs]
    ELSE LET parameter_name == alias_assignments[k].param
             aliases_used == Names(kwargs) \cap
                                (alias_assignments[k].aliases \cup {parameter_name})
         IN  IF Cardinality(aliases_used) > 1
             THEN [status |-> "ValueError", kwargs |-> kwargs]
             ELSE IF Cardinality(aliases_used) = 1
             THEN LET used == CHOOSE a \in aliases_used : TRUE
                      arg == ValueOf(kwargs, used)
                  IN  AliasingLoop(alias_assignments, k + 1,
                          {x \in kwargs : x[1] # used} \cup {<<parameter_name, arg>>})
             ELSE AliasingLoop(alias_assignments, k + 1, kwargs)

\* cls(**kwargs): the aliasing wrapper, then the class's own __init__, which
\* knows the parameters only
AliasedInit(alias_assignments, kwargs) ==
    LET passed == AliasingLoop(alias_assignments, 1, kwargs)
    IN  IF passed.status # "ok"
        THEN [status |-> passed.status, kwargs |-> passed.kwargs, attrs |-> <<>>]
        ELSE IF ~(Names(passed.kwargs) \subseteq ParameterNames)
        THEN [status |-> "TypeError", kwargs |-> passed.kwargs, attrs |-> <<>>]
        ELSE [status |-> "ok", kwargs |-> passed.kwargs,
              attrs |-> <<[p \in ParameterNames |->
                             IF p \in Names(passed.kwargs)
                             THEN ValueOf(passed.kwargs, p) ELSE 0]>>]

DeclaredAliases(alias_assignments) ==
    UNION {alias_assignments[k].aliases : k \in 1..Len(alias_assignments)}

\* the name `key` of getter and setter is the loop variable of the decorator,
\* looked up when the property is used: by then the loop has finished and key
\* is the last parameter of alias_assignments
KeyAtUse(alias_assignments) == alias_assignments[Len(alias_assignments)].param

\* property(getter, setter) under the name alias: getattr(self, key)
AliasGet(alias_assignments, attrs, alias) == attrs[KeyAtUse(alias_assignments)]

\* setattr(self, key, new_value)
AliasSet(alias_assignments, attrs, alias, new_value) ==
    [attrs EXCEPT ![KeyAtUse(alias_assignments)] = new_value]

\* -------------------------------------------------------- one-way ANOVA
\* The argument of the statistics: an FDataGrid or FDataBasis of n_samples
\* samples, or an object that is not an FData.
StatData == [kind : {"grid", "basis"}, n_samples : 1..MaxStatSamples]
               \cup {[kind |-> "other", n_samples |-> 0]}
StatWeights == UNION {[1..n -> 0..MaxWeight] : n \in 0..MaxStatSamples}
NormChoices == {1, 2}

StatRaised(m) == [status |-> "ValueError", msg |-> m, terms |-> <<>>, computed |-> FALSE]
StatReturned(terms) == [status |-> "ok", msg |-> "", terms |-> terms, computed |-> TRUE]

\* One summand, kept symbolic:
\* coef * lp_distance(f_left, sqrt(scale) * f_right, p) ** p
StatTerm(coef, left, right, scale, p) ==
    [coef |-> coef, left |-> left, right |-> right, scale |-> scale, p |-> p]

\* np.tril_indices(n, -1): the positions below the diagonal, row by row, as
\* pairs <<row, column>> (counted from 1)
RECURSIVE TrilIndices(_)
TrilIndices(n) ==
    IF n <= 1 THEN <<>>
    ELSE TrilIndices(n - 1) \o [c \in 1..(n - 1) |-> <<n, c>>]

\* a comparison that lets surplus weights through
WeightsTooFew(weights, fd) == Len(weights) < fd.n_samples

\* `len(weights) != fd.n_samples`
WeightsMismatch(weights, fd) == Len(weights) # fd.n_samples

\* a coefficient taken from the row index
SampleCoefOfRow(weights, pair) == weights[pair[1]]

\* coef = weights[t_ind[1]]
SampleCoef(weights, pair) == weights[pair[2]]

\* v_sample_stat(fd, weights, p)
VSampleStat(fd, weights, p) ==
    IF fd.kind = "other" THEN StatRaised("Argument type must inherit FData.")
    ELSE IF WeightsMismatch(weights, fd)
    THEN StatRaised("Number of weights must match number of samples.")
    ELSE LET t_ind == TrilIndices(fd.n_samples)
         IN  \* lp_distance(fd[t_ind[0]], fd[t_ind[1]], p=p) ** p
             StatReturned([k \in 1..Len(t_ind) |->
                 StatTerm(SampleCoef(weights, t_ind[k]), t_ind[k][1], t_ind[k][2],
                          RInt(1), p)])

\* v_asymptotic_stat(fd, weights, p)
VAsymptoticStat(fd, weights, p) ==
    IF fd.kind = "other" THEN StatRaised("Argument type must inherit FData.")
    ELSE IF WeightsMismatch(weights, fd)
    THEN StatRaised("Number of weights must match number of samples.")
    ELSE IF \E i \in 1..Len(weights) : weights[i] = 0
    THEN StatRaised("All weights must be non-zero.")
    ELSE LET t_ind == TrilIndices(fd.n_samples)
         IN  \* coef = sqrt(weights[t_ind[1]] / weights[t_ind[0]]);
             \* left_fd = fd[t_ind[1]]; right_fd = coef * fd[t_ind[0]]
             StatReturned([k \in 1..Len(t_ind) |->
                 StatTerm(1, t_ind[k][2], t_ind[k][1],
                          Rat(weights[t_ind[k][2]], weights[t_ind[k][1]]), p)])

\* The groups handed to oneway_anova.  An FDataGrid has its sample points, one
\* axis per domain dimension, and the domain range they span; an FDataBasis
\* has its basis, whose domain is the object's.
GridGroup(sample_points) ==
    [kind |-> "grid", sample_points |-> sample_points, basis |-> "",
     domain_range |-> [a \in 1..Len(sample_points) |->
                         <<sample_points[a][1],
                           sample_points[a][Len(sample_points[a])]>>]]
BasisGroup(basis, interval) ==
    [kind |-> "basis", sample_points |-> <<>>, basis |-> basis,
     domain_range |-> <<interval>>]
OtherGroup == [kind |-> "other", sample_points |-> <<>>, basis |-> "", domain_range |-> <<>>]

GroupChoices ==
    {GridGroup(sp) : sp \in {<< <<0, 1, 2>> >>, << <<0, 2>> >>, << <<0, 1>> >>,
                             << <<0, 1, 2>>, <<0, 1, 2>> >>,
                             << <<0, 1, 2>>, <<0, 2>> >>}}
      \cup {BasisGroup(b, i) : b \in {"Monomial", "BSpline"}, i \in {<<0, 2>>, <<0, 1>>}}
      \cup {OtherGroup}
GroupLists == UNION {[1..n -> GroupChoices] : n \in 1..MaxGroups}

AnovaRaised(cls, m) == [status |-> cls, msg |-> m, terms |-> <<>>, computed |-> FALSE]

\* oneway_anova(*args, n_reps): the checks in the order of the code.  Past
\* them the group means, the statistic and the simulation are computed; what
\* comes of that is decided by code outside these files (concatenate, cov,
\* make_gaussian_process), so both ends are possible.
OnewayAnova(args, n_reps) ==
    IF Len(args) < 2
    THEN {AnovaRaised("ValueError", "At least two groups must be passed as parameter.")}
    ELSE IF \E k \in 1..Len(args) : args[k].kind = "other"
    THEN {AnovaRaised("ValueError", "Argument type must inherit FData.")}
    ELSE IF n_reps < 1
    THEN {AnovaRaised("ValueError", "Number of simulations must be positive.")}
    ELSE IF \E k \in 2..Len(args) : args[k].kind # args[1].kind
    THEN {AnovaRaised("TypeError", "Found mixed FData types in arguments.")}
    ELSE IF \E k \in 2..Len(args) : args[k].domain_range # args[1].domain_range
    THEN {AnovaRaised("ValueError", "Domain range must match for every FData passed.")}
    ELSE IF /\ args[1].kind = "grid"
            \* list_sample = [fd.sample_points[0].tolist() for fd in fd_groups]
            /\ \E k \in 2..Len(args) : args[k].sample_points[1] # args[1].sample_points[1]
    THEN {AnovaRaised("ValueError", "All FDataGrid passed must have the same sample points.")}
    ELSE IF /\ args[1].kind = "basis"
            /\ \E k \in 2..Len(args) : args[k].basis # args[1].basis
    THEN {AnovaRaised("NotImplementedError", "Not implemented for FDataBasis with different basis.")}
    ELSE {[status |-> s, msg |-> "", terms |-> <<>>, computed |-> TRUE] :
             s \in IF \E k \in 2..Len(args) : args[k].sample_points # args[1].sample_points
                    THEN {"ok", "ValueError"} ELSE {"ok"}}

NoAnovaCall ==
    [op |-> "init", fd |-> [kind |-> "other", n_samples |-> 0], weights |-> <<>>,
     p |-> 0, args |-> <<>>, n_reps |-> 0,
     res |-> [status |-> "none", msg |-> "", terms |-> <<>>, computed |-> FALSE]]

\* ------------------------------------------------------------- the state
\* params: the estimator's constructor parameters (public attributes);
\* input_points_ .. cached_hat_matrix: the attributes fit sets;
\* last: the most recent call, its argument and what it handed back;
\* numpy_new: whether the installed numpy (>= 1.25) multiplies in place and
\* raises on comparing arrays whose shapes do not broadcast.
VARIABLES params, input_points_, output_points_, cached_coef_matrix,
          cached_hat_matrix, last, numpy_new, calls

\* fpca: an FPCABasis or FPCAGrid estimator, its parameters and the attributes
\* fit sets; sample: the caller's data object handed to the last PCA call, as
\* the call left it; plast: the last PCA call, with the data as handed in.
VARIABLES fpca, given_basis, given_weights, sample, plast, scores
VARIABLES fourier, flast

\* display: a MultipleDisplay; dlast: the last call on it or event sent to it.
\* aliased: an instance of a class decorated with parameter_aliases, with the
\* alias_assignments of the decoration; alast: the last use of it.
\* anova: the last call of a function of the ANOVA module.
VARIABLES display, dlast, aliased, alast, anova

smootherVars == <<params, input_points_, output_points_, cached_coef_matrix,
                  cached_hat_matrix, last, numpy_new>>
pcaVars == <<fpca, given_basis, given_weights, sample, plast, scores>>

fourierVars == <<fourier, flast>>
displayVars == <<display, dlast>>
aliasVars == <<aliased, alast>>
toolVars == <<displayVars, aliasVars, anova>>

vars == <<smootherVars, pcaVars, fourierVars, calls, toolVars>>

\* no MultipleDisplay, decorated class or ANOVA call is under study
NoDisplay ==
    /\ display = NoMultipleDisplay
    /\ dlast = [op |-> "init", artist |-> NoArtist, res |-> DReturned]

NoAliases ==
    /\ aliased = [alias_assignments |-> <<>>, attrs |-> <<>>]
    /\ alast = [op |-> "init", name |-> "", value |-> 0, kwargs |-> {},
                before |-> <<>>, res |-> [status |-> "ok", value |-> 0, kwargs |-> {}]]

NoAnova == anova = NoAnovaCall

NoTools == NoDisplay /\ NoAliases /\ NoAnova

\* no Fourier basis is under study
NoFourier ==
    /\ fourier = NoBasis
    /\ flast = [op |-> "init", n_basis |-> 0, eval_points |-> <<>>, other |-> NoBasis,
                domain_range |-> <<>>, rescale_period |-> FALSE, self |-> NoBasis,
                res |-> FourierReturned(<<>>, <<>>),
                order |-> 0, coefs |-> <<>>, deriv_coefs |-> <<>>, origin |-> <<>>,
                total |-> 0]

\* no PCA estimator is under study
NoPca ==
    /\ fpca = [variant |-> "none", n_components |-> 0, centering |-> FALSE,
               components_basis |-> <<>>, weights |-> [kind |-> "none", val |-> <<>>],
               pca_ |-> <<>>, components_ |-> <<>>, component_values_ |-> <<>>]
    /\ given_basis = <<>>
    /\ given_weights = [kind |-> "none", val |-> <<>>]
    /\ sample = NoFData
    /\ scores = NoScores
    /\ plast = [op |-> "init", X |-> NoFData, res |-> PcaReturned]

Est ==
    [input_points_ |-> input_points_, output_points_ |-> output_points_,
     cached_coef_matrix |-> cached_coef_matrix,
     cached_hat_matrix |-> cached_hat_matrix]

\* BasisSmoother.__init__
Init ==
    /\ params \in ParamChoices
    /\ input_points_ = <<>>
    /\ output_points_ = <<>>
    /\ cached_coef_matrix = <<>>
    /\ cached_hat_matrix = <<>>
    /\ last = [op |-> "init", X |-> NoData, res |-> ReturnedSelf("none")]
    /\ numpy_new \in BOOLEAN
    /\ calls = 0
    /\ NoPca
    /\ NoFourier
    /\ NoTools

Apply(op, X, out) ==
    /\ input_points_' = out.est.input_points_
    /\ output_points_' = out.est.output_points_
    /\ cached_coef_matrix' = out.est.cached_coef_matrix
    /\ cached_hat_matrix' = out.est.cached_hat_matrix
    /\ last' = [op |-> op, X |-> X, res |-> out.res]
    /\ UNCHANGED <<params, numpy_new, pcaVars, fourierVars, toolVars>>

Fit(X) == Apply("fit", X, FitOp(Est, params, X, numpy_new))

FitTransform(X) == Apply("fit_transform", X, FitTransformOp(Est, params, X, numpy_new))

Transform(X) == Apply("transform", X, TransformOp(Est, params, X, numpy_new))

\* assigning one public attribute of the estimator (set_params)
SetParams(p) ==
    /\ p # params
    /\ Cardinality({f \in DOMAIN p : p[f] # params[f]}) = 1
    /\ params' = p
    /\ last' = [op |-> "set_params", X |-> NoData, res |-> ReturnedSelf("none")]
    /\ UNCHANGED <<input_points_, output_points_, cached_coef_matrix,
                   cached_hat_matrix, numpy_new, pcaVars, fourierVars, toolVars>>

Counted == calls < MaxCalls /\ calls' = calls + 1

\* one estimator followed through its calls
CallFit == Counted /\ \E X \in RampGrids : Fit(X)
CallFitTransform == Counted /\ \E X \in RampGrids : FitTransform(X)
CallTransform == Counted /\ \E X \in RampGrids : Transform(X)
CallSetParams == Counted /\ \E p \in ParamChoices : SetParams(p)

Next == CallFit \/ CallFitTransform \/ CallTransform \/ CallSetParams

Spec == Init /\ [][Next]_vars

\* fit_transform on every data set, for every configuration
SmoothAll == UNCHANGED calls /\ \E X \in FDataGrids : FitTransform(X)

NextFitTransform == SmoothAll

SpecFitTransform == Init /\ [][NextFitTransform]_vars

\* the QR strategy called on its own, as fit_transform and _coef_matrix call
\* it, for penalties of either sign
QrParamChoices ==
    {[p EXCEPT !.smoothing_parameter = s, !.method = "qr"] :
        p \in ParamChoices, s \in {-1, 0, 1}}

InitQR ==
    /\ params \in QrParamChoices
    /\ input_points_ = <<>>
    /\ output_points_ = <<>>
    /\ cached_coef_matrix = <<>>
    /\ cached_hat_matrix = <<>>
    /\ last = [op |-> "init", X |-> NoData, res |-> ReturnedSelf("none")]
    /\ numpy_new \in BOOLEAN
    /\ calls = 0
    /\ NoPca
    /\ NoFourier
    /\ NoTools

\* _QR()(basis_values=..., weight_matrix=..., data_matrix=..., penalty_matrix=...)
CallQR ==
    \E X \in FDataGrids :
        /\ CanEvaluate(X.sample_points)
        /\ LET sol == QrCall(BasisValues(params.basis, X.sample_points),
                             params.weights, Transpose(X.data_matrix),
                             PenaltyMatrix(params.basis, params.smoothing_parameter,
                                           params.regularization))
           IN  last' = [op |-> "_QR", X |-> X,
                        res |-> IF sol.status # "ok"
                                THEN Raised(sol.status, sol.msg, "qr")
                                ELSE [status |-> "ok", msg |-> "", via |-> "qr",
                                      kind |-> "coefficients", basis |-> params.basis,
                                      points |-> <<>>, value |-> sol.val]]
        /\ UNCHANGED <<params, input_points_, output_points_, cached_coef_matrix,
                       cached_hat_matrix, numpy_new, calls, pcaVars, fourierVars, toolVars>>

NextQR == CallQR

SpecQR == InitQR /\ [][NextQR]_vars

\* ---------------------------------------------- the PCA specification
\* FPCABasis.__init__ / FPCAGrid.__init__ ; no smoother is under study
InitFPCA ==
    /\ fpca \in FpcaChoices
    /\ given_basis = fpca.components_basis
    /\ given_weights = fpca.weights
    /\ sample = NoFData
    /\ scores = NoScores
    /\ plast = [op |-> "init", X |-> NoFData, res |-> PcaReturned]
    /\ params = CHOOSE p \in ParamChoices : TRUE
    /\ input_points_ = <<>>
    /\ output_points_ = <<>>
    /\ cached_coef_matrix = <<>>
    /\ cached_hat_matrix = <<>>
    /\ last = [op |-> "init", X |-> NoData, res |-> ReturnedSelf("none")]
    /\ numpy_new = TRUE
    /\ calls = 0
    /\ NoFourier
    /\ NoTools

ApplyPca(op, X, out) ==
    /\ fpca' = out.est
    /\ sample' = out.X
    /\ plast' = [op |-> op, X |-> X, res |-> out.res]
    /\ scores' = NoScores
    /\ UNCHANGED <<given_basis, given_weights, smootherVars, fourierVars, toolVars>>

MaxRank == IF MaxCurves < MaxPoints THEN MaxPoints ELSE MaxCurves

PcaFitBasis ==
    /\ Counted
    /\ fpca.variant = "basis"
    /\ \E X \in BasisSamples, spectrum \in Spectra(MaxRank) :
          ApplyPca("fit", X, FpcaBasisFit(fpca, X, spectrum))

PcaFitGrid ==
    /\ Counted
    /\ fpca.variant = "grid"
    /\ \E X \in GridSamples, spectrum \in Spectra(MaxRank) :
          ApplyPca("fit", X, FpcaGridFit(fpca, X, spectrum))

\* assigning n_components
PcaSetComponents ==
    /\ Counted
    /\ \E n \in 1..MaxComponents :
          /\ n # fpca.n_components
          /\ fpca' = [fpca EXCEPT !.n_components = n]
    /\ plast' = [op |-> "set_params", X |-> NoFData, res |-> PcaReturned]
    /\ scores' = NoScores
    /\ UNCHANGED <<given_basis, given_weights, sample, smootherVars, fourierVars, toolVars>>

\* transform leaves the estimator and the sample as they are
ApplyPcaTransform(X, out) ==
    /\ scores' = out
    /\ sample' = X
    /\ plast' = [op |-> "transform", X |-> X,
                 res |-> [status |-> out.status, msg |-> out.msg]]
    /\ UNCHANGED <<fpca, given_basis, given_weights, smootherVars, fourierVars, toolVars>>

PcaTransformBasis ==
    /\ Counted
    /\ fpca.variant = "basis"
    /\ \E X \in BasisScoreSamples : ApplyPcaTransform(X, FpcaBasisTransform(fpca, X))

PcaTransformGrid ==
    /\ Counted
    /\ fpca.variant = "grid"
    /\ \E X \in GridScoreSamples : ApplyPcaTransform(X, FpcaGridTransform(fpca, X))

NextFPCA == PcaFitBasis \/ PcaFitGrid \/ PcaSetComponents
               \/ PcaTransformBasis \/ PcaTransformGrid

SpecFPCA == InitFPCA /\ [][NextFPCA]_vars

\* ------------------------------- the first fit of FPCAGrid on longer grids
\* strictly increasing sample points
IncreasingAxes ==
    {a \in UNION {[1..n -> 0..MaxGridCoord] : n \in 2..MaxGridPoints} :
        \A i \in 1..(Len(a) - 1) : a[i] < a[i + 1]}

LongGridSamples == {FDataGridOf(a, RampMatrix(MaxCurves, Len(a))) : a \in IncreasingAxes}

\* FPCAGrid.__init__ without weights
InitGridWeights ==
    /\ InitFPCA
    /\ fpca.variant = "grid"
    /\ fpca.weights.kind = "none"

FirstFitGrid ==
    /\ Counted
    /\ plast.op = "init"
    /\ \E X \in LongGridSamples, spectrum \in Spectra(MaxGridPoints) :
          ApplyPca("fit", X, FpcaGridFit(fpca, X, spectrum))

NextGridWeights == FirstFitGrid

SpecGridWeights == InitGridWeights /\ [][NextGridWeights]_vars

\* ------------------------------------------- the Fourier specification
\* no smoother is under study
NoSmoother ==
    /\ params = CHOOSE p \in ParamChoices : TRUE
    /\ input_points_ = <<>>
    /\ output_points_ = <<>>
    /\ cached_coef_matrix = <<>>
    /\ cached_hat_matrix = <<>>
    /\ last = [op |-> "init", X |-> NoData, res |-> ReturnedSelf("none")]
    /\ numpy_new = TRUE

FourierCallRecord(op, self, res) ==
    [op |-> op, n_basis |-> 0, eval_points |-> <<>>, other |-> NoBasis,
     domain_range |-> <<>>, rescale_period |-> FALSE, self |-> self, res |-> res,
     order |-> 0, coefs |-> <<>>, deriv_coefs |-> <<>>, origin |-> <<>>, total |-> 0]

\* Fourier(domain_range, n_basis, period)
InitFourier ==
    /\ \E d \in FourierDomains, n \in 1..MaxNBasis, per \in PeriodChoices :
          /\ fourier = FourierInit(d, n, per)
          /\ flast = [FourierCallRecord("init", NoBasis, FourierReturned(<<fourier>>, <<>>))
                         EXCEPT !.n_basis = n]
    /\ NoSmoother
    /\ NoPca
    /\ NoTools
    /\ calls = 0

BasisCounted == calls < MaxBasisCalls /\ calls' = calls + 1

\* none of the methods assigns to self; the caller goes on with the basis it
\* called or with the Fourier basis it was handed back
GoOnWith(res) ==
    /\ fourier' \in {fourier} \cup
          (IF res.basis # <<>> /\ res.basis[1].kind = "Fourier" THEN {res.basis[1]} ELSE {})
    /\ UNCHANGED <<smootherVars, pcaVars, toolVars>>

CallEvaluate ==
    /\ BasisCounted
    /\ \E eval_points \in EvalPoints :
          LET res == FourierEvaluate(fourier, eval_points)
          IN  /\ flast' = [FourierCallRecord("evaluate", fourier, res)
                              EXCEPT !.eval_points = eval_points]
              /\ GoOnWith(res)

\* the coefficients of a sample in the basis, or the ones the derivative
\* just taken handed back
CallDerivative ==
    /\ BasisCounted
    /\ \E order \in 1..MaxOrder, again \in BOOLEAN :
          /\ again => flast.op = "derivative"
          /\ LET res == DerivativeBasis(fourier)
                 coefs == IF again THEN flast.deriv_coefs ELSE FreshCoefs(fourier.n_basis)
             IN  /\ flast' = [FourierCallRecord("derivative", fourier, res)
                                 EXCEPT !.order = order,
                                        !.coefs = coefs,
                                        !.deriv_coefs = DerivativeCoefs(fourier, coefs, order),
                                        !.origin = IF again THEN flast.origin ELSE coefs,
                                        !.total = IF again THEN flast.total + order
                                                  ELSE order]
                 /\ GoOnWith(res)

CallBasisOfProduct ==
    /\ BasisCounted
    /\ \E other \in OtherBases :
          LET res == BasisOfProduct(fourier, other)
          IN  /\ flast' = [FourierCallRecord("basis_of_product", fourier, res)
                              EXCEPT !.other = other]
              /\ GoOnWith(res)

CallRescale ==
    /\ BasisCounted
    /\ \E domain_range \in {<<>>} \cup {<<d>> : d \in FourierDomains},
          rescale_period \in BOOLEAN :
          LET res == FourierRescale(fourier, domain_range, rescale_period)
          IN  /\ flast' = [FourierCallRecord("rescale", fourier, res)
                              EXCEPT !.domain_range = domain_range,
                                     !.rescale_period = rescale_period]
              /\ GoOnWith(res)

NextFourier == CallEvaluate \/ CallDerivative \/ CallBasisOfProduct \/ CallRescale

SpecFourier == InitFourier /\ [][NextFourier]_vars

\* nothing but the tools of the later sections is under study
OnlyTools == NoSmoother /\ NoPca /\ NoFourier /\ calls = 0

\* MultipleDisplay(displays), with one display or a list of two
InitDisplay ==
    /\ \E displays \in UNION {[1..n -> DisplayChoices] : n \in 1..2} :
          display = MultipleDisplayInit(displays)
    /\ dlast = [op |-> "init", artist |-> NoArtist, res |-> DReturned]
    /\ NoAliases
    /\ NoAnova
    /\ OnlyTools

DisplayIdle == UNCHANGED <<smootherVars, pcaVars, fourierVars, calls, aliasVars, anova>>

\* add_displays(display), before the figure is drawn
CallAddDisplays ==
    /\ ~display.plotted
    /\ Len(display.displays) < MaxDisplays
    /\ \E d \in DisplayChoices : display' = AddDisplays(display, <<d>>)
    /\ dlast' = [op |-> "add_displays", artist |-> NoArtist, res |-> DReturned]
    /\ DisplayIdle

\* plot(), once
CallPlot ==
    /\ ~display.plotted
    /\ LET out == PlotOp(display)
       IN  /\ display' = out.self
           /\ dlast' = [op |-> "plot", artist |-> NoArtist, res |-> out.res]
    /\ DisplayIdle

\* a pick event on one of the artists drawn
Pick ==
    /\ display.plotted
    /\ \E d \in 1..Len(display.displays) :
          \E i \in 1..display.displays[d].n :
              LET out == PickOp(display, Artist(d, i))
              IN  /\ display' = out.self
                  /\ dlast' = [op |-> "pick", artist |-> Artist(d, i), res |-> out.res]
    /\ DisplayIdle

NextDisplay == CallAddDisplays \/ CallPlot \/ Pick

SpecDisplay == InitDisplay /\ [][NextDisplay]_vars

\* an instance of the decorated class, built without arguments
InitAliases ==
    /\ \E a \in AliasAssignments :
          aliased = [alias_assignments |-> a, attrs |-> [p \in ParameterNames |-> 0]]
    /\ alast = [op |-> "init", name |-> "", value |-> 0, kwargs |-> {},
                before |-> aliased.attrs,
                res |-> [status |-> "ok", value |-> 0, kwargs |-> {}]]
    /\ NoDisplay
    /\ NoAnova
    /\ OnlyTools

AliasIdle == UNCHANGED <<smootherVars, pcaVars, fourierVars, calls, displayVars, anova>>

\* cls(**kwargs): the caller goes on with the new instance when there is one
CallAliasedInit ==
    /\ \E kwargs \in KeywordChoices :
          LET out == AliasedInit(aliased.alias_assignments, kwargs)
          IN  /\ aliased' = IF out.status = "ok"
                            THEN [aliased EXCEPT !.attrs = out.attrs[1]]
                            ELSE aliased
              /\ alast' = [op |-> "call", name |-> "", value |-> 0, kwargs |-> kwargs,
                           before |-> aliased.attrs,
                           res |-> [status |-> out.status, value |-> 0,
                                    kwargs |-> out.kwargs]]
    /\ AliasIdle

\* instance.alias
CallAliasGet ==
    /\ \E alias \in DeclaredAliases(aliased.alias_assignments) :
          alast' = [op |-> "get", name |-> alias, value |-> 0, kwargs |-> {},
                    before |-> aliased.attrs,
                    res |-> [status |-> "ok",
                             value |-> AliasGet(aliased.alias_assignments,
                                                aliased.attrs, alias),
                             kwargs |-> {}]]
    /\ UNCHANGED aliased
    /\ AliasIdle

\* instance.alias = new_value
CallAliasSet ==
    /\ \E alias \in DeclaredAliases(aliased.alias_assignments), new_value \in 0..MaxAttr :
          /\ aliased' = [aliased EXCEPT !.attrs =
                            AliasSet(aliased.alias_assignments, @, alias, new_value)]
          /\ alast' = [op |-> "set", name |-> alias, value |-> new_value, kwargs |-> {},
                       before |-> aliased.attrs,
                       res |-> [status |-> "ok", value |-> 0, kwargs |-> {}]]
    /\ AliasIdle

NextAliases == CallAliasedInit \/ CallAliasGet \/ CallAliasSet

SpecAliases == InitAliases /\ [][NextAliases]_vars

\* the functions of the ANOVA module are pure: one call is followed, on any
\* arguments
InitAnova ==
    /\ NoAnova
    /\ NoDisplay
    /\ NoAliases
    /\ OnlyTools

FirstCall == anova.op = "init"

AnovaIdle == UNCHANGED <<smootherVars, pcaVars, fourierVars, calls, displayVars, aliasVars>>

CallVSampleStat ==
    /\ FirstCall
    /\ \E fd \in StatData, weights \in StatWeights, p \in NormChoices :
          anova' = [NoAnovaCall EXCEPT !.op = "v_sample_stat", !.fd = fd,
                                       !.weights = weights, !.p = p,
                                       !.res = VSampleStat(fd, weights, p)]
    /\ AnovaIdle

CallVAsymptoticStat ==
    /\ FirstCall
    /\ \E fd \in StatData, weights \in StatWeights, p \in NormChoices :
          anova' = [NoAnovaCall EXCEPT !.op = "v_asymptotic_stat", !.fd = fd,
                                       !.weights = weights, !.p = p,
                                       !.res = VAsymptoticStat(fd, weights, p)]
    /\ AnovaIdle

CallOnewayAnova ==
    /\ FirstCall
    /\ \E args \in GroupLists, n_reps \in {0, 1} :
          \E res \in OnewayAnova(args, n_reps) :
              anova' = [NoAnovaCall EXCEPT !.op = "oneway_anova", !.args = args,
                                           !.n_reps = n_reps, !.res = res]
    /\ AnovaIdle

NextAnova == CallVSampleStat \/ CallVAsymptoticStat \/ CallOnewayAnova

SpecAnova == InitAnova /\ [][NextAnova]_vars

\* ================================================================ claims
\* what the last call was given
LastPoints == last.X.sample_points
LastData == last.X.data_matrix
LastNPoints == Cols(last.X.data_matrix)

\* Phi'W Phi + lambda R for configuration p at the sample points pts
NormalMatrix(p, pts) ==
    LET phi == BasisValues(p.basis, pts)
    IN  MatAdd(IF p.weights # <<>>
               THEN MatMul(MatMul(Transpose(phi), p.weights), phi)
               ELSE MatMul(Transpose(phi), phi),
               PenaltyMatrix(p.basis, p.smoothing_parameter, p.regularization))

\* the penalised least-squares problem of p on X is well posed: the basis can
\* be evaluated at the points, the weights fit them, and the normal equations
\* have one solution
WellPosed(p, X) ==
    /\ CanEvaluate(X.sample_points)
    /\ p.weights # <<>> => Rows(p.weights) = GridSize(X.sample_points)
    /\ ~IsSingular(NormalMatrix(p, X.sample_points))

\* C1 (as stated): fit_transform fails with an error whenever X has fewer
\* discretization points than basis.n_basis, for every method and every
\* smoothing_parameter.
C1_FewerPointsAlwaysFails ==
    (last.op = "fit_transform" /\ LastNPoints < params.basis)
        => last.res.status # "ok"

\* C1 (amended): when X has fewer discretization points than basis.n_basis
\* and smoothing_parameter is not greater than 0, fit_transform raises
\* ValueError for every method, and on a one-dimensional grid it is the
\* "basis functions exceed points" error raised before any solve.
C1_FewerPointsNoSmoothingRaises ==
    (last.op = "fit_transform" /\ LastNPoints < params.basis
        /\ params.smoothing_parameter <= 0)
        => /\ last.res.status = "ValueError"
           /\ CanEvaluate(LastPoints)
                => /\ last.res.msg = "basis functions exceed points"
                   /\ last.res.via = "none"

\* C1 witness: a matrix-method estimator without smoothing was given fewer
\* points than basis functions and raised the underdetermined-system error.
C1_Witness ==
    /\ last.op = "fit_transform"
    /\ params.method = "matrix"
    /\ params.smoothing_parameter = 0
    /\ CanEvaluate(LastPoints)
    /\ LastNPoints < params.basis
    /\ last.res.msg = "basis functions exceed points"

\* C2 (as stated): a transform with method 'matrix' that returns a result
\* used a cached coefficient matrix (hat matrix) equal to the one the
\* estimator's present configuration and fitted points give.  Stated for a
\* transform on the very points that were recorded, where only a changed
\* configuration can make the cache differ.
C2_TransformCacheIsCurrent ==
    (last.op = "transform" /\ params.method = "matrix" /\ last.res.status = "ok"
        /\ LastPoints = input_points_ /\ CanEvaluate(input_points_))
        => IF params.return_basis
           THEN Ok(cached_coef_matrix) = CoefMatrix(params, input_points_, numpy_new)
           ELSE Ok(cached_hat_matrix)
                    = HatMatrix(params, input_points_, output_points_, numpy_new)

\* C3 (as stated): a transform whose X.sample_points differ in any way from
\* the input points recorded before the call returns no result.
C3_TransformRejectsOtherPoints ==
    [][(last'.op = "transform" /\ input_points_ # last'.X.sample_points)
          => last'.res.status # "ok"]_vars

\* C4 (as stated): with method 'matrix', a transform right after a successful
\* fit, on data with the fitted sample points, returns the data times the
\* transposed cached coefficient matrix as an FDataBasis when return_basis is
\* True and otherwise the hat matrix applied to the data at output_points_,
\* leaving the caches as fit computed them.
C4_TransformAppliesFitCache ==
    [][(/\ last.op = "fit" /\ last.res.status = "ok"
        /\ params.method = "matrix"
        /\ last'.op = "transform"
        /\ last'.X.sample_points = input_points_)
          => /\ last'.res.status = "ok"
             /\ cached_coef_matrix' = cached_coef_matrix
             /\ cached_hat_matrix' = cached_hat_matrix
             /\ IF params.return_basis
                THEN /\ last'.res.kind = "basis"
                     /\ last'.res.value
                          = MatMul(last'.X.data_matrix, Transpose(cached_coef_matrix))
                ELSE /\ last'.res.kind = "grid"
                     /\ last'.res.points = output_points_
                     /\ last'.res.value
                          = MatMul(last'.X.data_matrix, Transpose(cached_hat_matrix))]_vars

\* C5 (as stated): for every method, fit_transform on a well-posed problem
\* returns an FDataBasis (one coefficient row per sample, n_basis columns,
\* the estimator's basis) exactly when return_basis is True, and otherwise an
\* FDataGrid sampled at output_points if given, else at X's points.
C5_ReturnsConfiguredForm ==
    (last.op = "fit_transform" /\ WellPosed(params, last.X)
        /\ FitTransformBranch(LastNPoints, params.basis, params.smoothing_parameter)
               # "underdetermined")
        => /\ last.res.status = "ok"
           /\ IF params.return_basis
              THEN /\ last.res.kind = "basis"
                   /\ last.res.basis = params.basis
                   /\ Rows(last.res.value) = Rows(LastData)
                   /\ Cols(last.res.value) = params.basis
              ELSE /\ last.res.kind = "grid"
                   /\ Rows(last.res.value) = Rows(LastData)
                   /\ last.res.points = IF params.output_points # <<>>
                                        THEN params.output_points
                                        ELSE LastPoints

\* what fit_transform hands back on X under method m, all else as configured
UnderMethod(m, X) ==
    FitTransformOp(Unfitted, [params EXCEPT !.method = m], X, numpy_new).res

\* C6 (as stated): with return_basis=True, fit_transform yields the same
\* coefficient matrix under 'cholesky', 'qr' and 'matrix' for the same basis,
\* weights, smoothing_parameter, regularization and data.
C6_SolversAgree ==
    (last.op = "fit_transform" /\ params.return_basis)
        => \A m \in MethodChoices :
              /\ UnderMethod(m, last.X).status = last.res.status
              /\ UnderMethod(m, last.X).value = last.res.value

\* C7: when the number of discretization points equals basis.n_basis and
\* smoothing_parameter is not greater than 0, fit_transform solves the square
\* system basis_values * C = data itself, whatever the method, and the
\* configured strategy is not invoked.
C7_SquareSystemSolvedDirectly ==
    (last.op = "fit_transform" /\ CanEvaluate(LastPoints)
        /\ LastNPoints = params.basis /\ params.smoothing_parameter <= 0)
        => /\ last.res.status = "ok"
           /\ last.res.via = "direct"
           /\ params.return_basis
                => /\ last.res.kind = "basis"
                   /\ MatMul(BasisValues(params.basis, LastPoints),
                             Transpose(last.res.value)) = Transpose(LastData)
           /\ (~params.return_basis /\ params.output_points = <<>>)
                => /\ last.res.kind = "grid"
                   /\ last.res.value = LastData

\* C7 witness: a matrix-method estimator solved a square system directly.
C7_Witness ==
    /\ last.op = "fit_transform"
    /\ params.method = "matrix"
    /\ params.smoothing_parameter = 0
    /\ LastNPoints = params.basis
    /\ LastNPoints = MaxPoints
    /\ last.res.status = "ok"
    /\ last.res.via = "direct"

\* ---- functional PCA
PcaFitted == plast.op = "fit" /\ plast.res.status = "ok"
PcaRefused == plast.op = "fit" /\ plast.res.status = "AttributeError"

\* the capacity the components are limited by: for FPCABasis the size of the
\* basis given to the constructor, else of the basis of X; for FPCAGrid the
\* number of discretization points
Capacity(X) ==
    IF X.kind = "grid" THEN Cols(X.matrix)
    ELSE IF given_basis # <<>> THEN given_basis[1].n_basis
    ELSE X.basis[1].n_basis

\* C8: every fit that asks for more components than there are samples, or than
\* the capacity, is refused by fit with the configuration error
C8_FitRefusesTooManyComponents ==
    (plast.op = "fit"
        /\ (fpca.n_components > Rows(plast.X.matrix)
               \/ fpca.n_components > Capacity(plast.X)))
    => plast.res.status = "AttributeError"

\* C9: a fit refused for its n_components leaves the sample handed in and
\* every attribute of the estimator as they were before the call
C9_RefusedFitTouchesNothing ==
    [][(plast'.op = "fit" /\ plast'.res.status = "AttributeError" /\ calls' # calls)
          => (sample' = plast'.X /\ fpca' = fpca)]_vars

\* a refused fit of a centering estimator that holds the results of an earlier
\* fit, on a sample that centering would have changed
C9_Witness ==
    /\ PcaRefused
    /\ fpca.centering
    /\ Centered(plast.X.matrix) # plast.X.matrix
    /\ fpca.components_ # <<>>
    /\ fpca.component_values_ # <<>>
    /\ sample = plast.X

\* C10: after a successful fit there are n_components components and as many
\* component values, none negative, largest first
C10_ComponentsAsRequested ==
    PcaFitted =>
        LET values == fpca.component_values_[1]
            components == fpca.components_[1]
        IN  /\ components.n_rows = fpca.n_components
            /\ components.n_rows <= Min(Rows(plast.X.matrix), components.n_cols)
            /\ Len(values) = fpca.n_components
            /\ \A i \in 1..Len(values) : values[i] >= 0
            /\ \A i \in 1..(Len(values) - 1) : values[i] >= values[i + 1]

\* a successful fit for two components with distinct eigenvalues
C10_Witness ==
    /\ PcaFitted
    /\ fpca.n_components = 2
    /\ fpca.component_values_[1][1] > fpca.component_values_[1][2]

\* C11: with centering enabled a successful fit leaves the values of the sample
\* handed in (X.coefficients, X.data_matrix) as they were before the call
C11_CenteringLeavesSampleAlone ==
    (PcaFitted /\ fpca.centering) => sample.matrix = plast.X.matrix

\* C12: a fit of FPCABasis leaves the basis of X, and the Basis object that was
\* given as components_basis, in the state they had before the call
C12_BasisObjectsReadOnly ==
    [][(plast'.op = "fit" /\ calls' # calls /\ fpca.variant = "basis")
          => /\ sample'.basis = plast'.X.basis
             /\ given_basis # <<>> => fpca'.components_basis = fpca.components_basis]_vars

\* C13: an FPCABasis constructed with components_basis=None expresses the
\* components of every successful fit in the basis of the X of that fit
C13_ComponentsInBasisOfSample ==
    (PcaFitted /\ fpca.variant = "basis" /\ given_basis = <<>>)
    => fpca.components_[1].basis = plast.X.basis

\* a sample that both fit methods can process: checks passed, and for the
\* grid variant at least two curves on at least two points
Processable(est, X) ==
    /\ est.n_components <= Rows(X.matrix)
    /\ X.kind = "grid" => /\ est.n_components <= Cols(X.matrix)
                          /\ Rows(X.matrix) >= 2
                          /\ Cols(X.matrix) >= 2

\* C14: an FPCAGrid constructed without weights that holds the weights of an
\* earlier fit completes every later fit of a processable sample and keeps
\* those weights
C14_StoredWeightsReused ==
    [][(plast'.op = "fit" /\ calls' # calls /\ fpca.variant = "grid"
          /\ given_weights.kind = "none" /\ fpca.weights.kind # "none"
          /\ Processable(fpca, plast'.X))
          => (plast'.res.status = "ok" /\ fpca'.weights = fpca.weights)]_vars

\* the sample handed to transform lives where the components live: the same
\* domain for the basis variant, the same number of points for the grid variant
TransformCompatible(est, X) ==
    /\ est.components_ # <<>>
    /\ X.kind = "basis" =>
          X.basis[1].domain_range = est.components_[1].basis[1].domain_range
    /\ X.kind = "grid" => Cols(X.matrix) = est.components_[1].n_cols

\* C16: transform on a fitted estimator returns a plain matrix with one row
\* per sample of X and one column per component
C16_TransformReturnsScoreMatrix ==
    (plast.op = "transform" /\ TransformCompatible(fpca, plast.X))
    => /\ scores.status = "ok"
       /\ scores.kind = "matrix"
       /\ scores.shape = <<Rows(plast.X.matrix), fpca.components_[1].n_rows>>

\* C15: on strictly increasing points x_1 < ... < x_n the weights computed by
\* the first fit are n in number: half the first interval, half the last
\* interval, half of x_(k+1) - x_(k-1) in between; they sum to x_n - x_1
C15_TrapezoidalWeights ==
    (PcaFitted /\ fpca.variant = "grid" /\ given_weights.kind = "none")
    => LET x == plast.X.sample_points
           w == fpca.weights.val
           n == Len(x)
       IN  /\ Len(w) = n
           /\ w[1] = Rat(x[2] - x[1], 2)
           /\ w[n] = Rat(x[n] - x[n - 1], 2)
           /\ \A k \in 2..(n - 1) : w[k] = Rat(x[k + 1] - x[k - 1], 2)
           /\ RSum(w, n) = RInt(x[n] - x[1])

\* a first fit on four unevenly spaced points
C15_Witness ==
    /\ PcaFitted
    /\ fpca.variant = "grid"
    /\ given_weights.kind = "none"
    /\ Len(plast.X.sample_points) = 4
    /\ plast.X.sample_points[2] - plast.X.sample_points[1]
          # plast.X.sample_points[3] - plast.X.sample_points[2]
    /\ fpca.weights.kind = "array"

\* ---- Fourier basis
IsOdd(n) == n % 2 = 1

\* C17: a Fourier basis built from an even n_basis has n_basis + 1 functions,
\* from an odd n_basis has n_basis; every Fourier basis held or handed back by
\* rescale, basis_of_product and the derivative helper has an odd size
C17_FourierSizeIsOdd ==
    /\ flast.op = "init" =>
          fourier.n_basis = (IF flast.n_basis % 2 = 0 THEN flast.n_basis + 1 ELSE flast.n_basis)
    /\ fourier.kind = "Fourier" => IsOdd(fourier.n_basis)
    /\ (flast.op \in {"rescale", "basis_of_product", "derivative"}
          /\ flast.res.basis # <<>> /\ flast.res.basis[1].kind = "Fourier")
       => IsOdd(flast.res.basis[1].n_basis)

\* the product of two Fourier bases of three functions: a Fourier basis of five
C17_Witness ==
    /\ flast.op = "basis_of_product"
    /\ flast.self.n_basis = 3
    /\ flast.other.n_basis = 3
    /\ flast.res.basis # <<>>
    /\ flast.res.basis[1].kind = "Fourier"
    /\ flast.res.basis[1].n_basis = 5

\* C18: _evaluate at m points returns n_basis rows of m columns: the constant
\* row, then for every frequency n the sine row followed by the cosine row
C18_EvaluateLayout ==
    flast.op = "evaluate" =>
        LET points == flast.eval_points
            m == Len(points)
            matrix == flast.res.matrix
        IN  /\ flast.res.status = "ok"
            /\ Len(matrix) = flast.self.n_basis
            /\ \A r \in 1..Len(matrix) : Len(matrix[r]) = m
            /\ \A c \in 1..m : matrix[1][c] = Entry("const", 0, 0)
            /\ \A n \in 1..((flast.self.n_basis - 1) \div 2) : \A c \in 1..m :
                  /\ matrix[2 * n][c] = Entry("sin", n, points[c])
                  /\ matrix[2 * n + 1][c] = Entry("cos", n, points[c])

\* C19: basis_of_product raises ValueError on different domains, returns the
\* Fourier basis of n_basis + other.n_basis - 1 functions with the same domain
\* and period for a Fourier basis of the same period, and the generic product
\* basis in every other case
C19_BasisOfProduct ==
    flast.op = "basis_of_product" =>
        LET b == flast.self
            other == flast.other
            res == flast.res
        IN  IF b.domain_range # other.domain_range
            THEN res.status = "ValueError" /\ res.basis = <<>>
            ELSE IF other.kind = "Fourier" /\ Period(b) = Period(other)
            THEN /\ res.status = "ok"
                 /\ res.basis[1].kind = "Fourier"
                 /\ res.basis[1].domain_range = b.domain_range
                 /\ Period(res.basis[1]) = Period(b)
                 /\ res.basis[1].n_basis = b.n_basis + other.n_basis - 1
            ELSE /\ res.status = "ok"
                 /\ res.basis[1] = DefaultBasisOfProduct(b, other)

\* the product with a Fourier basis of another period on the same domain
C19_Witness ==
    /\ flast.op = "basis_of_product"
    /\ flast.other.kind = "Fourier"
    /\ flast.other.domain_range = flast.self.domain_range
    /\ Period(flast.other) # Period(flast.self)
    /\ flast.res.status = "ok"
    /\ flast.res.basis[1].kind = "product"

\* the length of a domain
DomainLength(domain_range) == domain_range[2] - domain_range[1]

\* C20: rescale hands back a new Fourier basis of the same size on the domain
\* asked for and leaves the basis it was called on as it was; the new period is
\* the old one, or the old one times new length / old length when
\* rescale_period is True
C20_Rescale ==
    [][(flast'.op = "rescale" /\ calls' # calls) =>
          LET new == flast'.res.basis[1]
              asked == IF flast'.domain_range = <<>>
                       THEN fourier.domain_range
                       ELSE flast'.domain_range[1]
          IN  /\ flast'.res.status = "ok"
              /\ flast'.self = fourier
              /\ new.kind = "Fourier"
              /\ new.n_basis = fourier.n_basis
              /\ new.domain_range = asked
              /\ ~flast'.rescale_period => Period(new) = Period(fourier)
              /\ flast'.rescale_period =>
                    RMul(Period(new), RInt(DomainLength(fourier.domain_range)))
                       = RMul(Period(fourier), RInt(DomainLength(asked)))]_vars

\* a rescale to a domain of another length with rescale_period True
C20_Witness ==
    /\ flast.op = "rescale"
    /\ flast.rescale_period
    /\ flast.res.status = "ok"
    /\ DomainLength(flast.res.basis[1].domain_range) # DomainLength(flast.self.domain_range)
    /\ Period(flast.res.basis[1]) # Period(flast.self)
    /\ flast.self._period # <<>>

\* C24 (as stated): for any weight matrix W (the identity when weights is
\* None) the Cholesky strategy solves (Phi' W Phi + P) C = Phi' W Y with Phi
\* the basis values it was given, both sides built from the unmodified Phi,
\* and the caller's basis_values holds the same values after the call.
C24_CholeskySolvesNormalEquations ==
    (last.op = "fit_transform" /\ params.method = "cholesky"
        /\ params.return_basis /\ WellPosed(params, last.X)
        /\ FitTransformBranch(LastNPoints, params.basis, params.smoothing_parameter)
               = "strategy")
        => LET phi == BasisValues(params.basis, LastPoints)
               right == IF params.weights # <<>>
                        THEN MatMul(MatMul(Transpose(phi), params.weights),
                                    Transpose(LastData))
                        ELSE MatMul(Transpose(phi), Transpose(LastData))
           IN  /\ last.res.status = "ok"
               /\ MatMul(NormalMatrix(params, LastPoints), Transpose(last.res.value))
                      = right
               /\ CholeskyBasisValuesAfter(phi, params.weights) = phi

\* the penalty with its negative eigenvalues clipped to zero (the penalties
\* of the model are diagonal, so the eigenvalues are the diagonal entries)
ClippedPenalty(P) ==
    [i \in 1..Rows(P) |-> [j \in 1..Cols(P) |->
        IF i = j THEN RMax(P[i][i], RZero) ELSE P[i][j]]]

LastPenalty == PenaltyMatrix(params.basis, params.smoothing_parameter, params.regularization)

QrCalled ==
    /\ last.op = "_QR"
    /\ params.weights # <<>> => Rows(params.weights) = LastNPoints

\* C25: the QR strategy augments exactly when the penalty matrix is not all
\* zeros: it then appends n_basis rows to the basis matrix, a block B with
\* B'B equal to the penalty with its negative eigenvalues clipped, and n_basis
\* zero rows to the data matrix; with an all-zero penalty both matrices keep
\* their number of rows.
C25_QrAugmentsOnPenalty ==
    QrCalled =>
        LET k == params.basis
            B == QrBasisValues(BasisValues(k, LastPoints), params.weights, LastPenalty)
            D == QrDataMatrix(Transpose(LastData), params.weights, LastPenalty)
            block == SubSeq(B, LastNPoints + 1, Rows(B))
        IN  IF IsZeroMatrix(LastPenalty)
            THEN /\ Rows(B) = LastNPoints
                 /\ Rows(D) = LastNPoints
            ELSE /\ Rows(B) = LastNPoints + k
                 /\ Rows(D) = LastNPoints + k
                 /\ SubSeq(D, LastNPoints + 1, Rows(D)) = ZeroMatrix(k, Rows(LastData))
                 /\ MatMul(Transpose(block), block) = ClippedPenalty(LastPenalty)

\* C25 witness: the strategy was called with a penalty that has a negative
\* eigenvalue, and augmented.
C25_Witness ==
    /\ QrCalled
    /\ ~IsZeroMatrix(LastPenalty)
    /\ \E i \in 1..params.basis : ~RLeq(RZero, LastPenalty[i][i])
    /\ Rows(QrBasisValues(BasisValues(params.basis, LastPoints), params.weights,
                          LastPenalty)) = LastNPoints + params.basis

\* a positive penalty and an all-zero one were both met
C25_WitnessPositive ==
    /\ QrCalled
    /\ \E i \in 1..params.basis : ~RLeq(LastPenalty[i][i], RZero)
    /\ last.res.status = "ok"

\* C26 (as stated): the smoother moves unfit -> fitted only through fit or
\* fit_transform: transform on an estimator that was never fitted returns no
\* result, and after any successful fit(X) or fit_transform(X), for every
\* method, input_points_ = X.sample_points, output_points_ = output_points if
\* given else input_points_, and transform on data with the same sample
\* points returns a result.
C26_FittedOnlyThroughFit ==
    /\ (last.op = "transform" /\ input_points_ = <<>>) => last.res.status # "ok"
    /\ (last.op \in {"fit", "fit_transform"} /\ last.res.status = "ok")
          => /\ input_points_ = LastPoints
             /\ output_points_ = IF params.output_points # <<>>
                                 THEN params.output_points ELSE input_points_
             /\ TransformOp(Est, params, last.X, numpy_new).res.status = "ok"

\* the order-th derivative of c sin(n omega t) and of c cos(n omega t): which
\* function it is a multiple of, and the sign of the multiple
DSin(order) == <<"sin", "cos", "sin", "cos">>[(order % 4) + 1]
DSinSign(order) == <<1, 1, -1, -1>>[(order % 4) + 1]
DCos(order) == <<"cos", "sin", "cos", "sin">>[(order % 4) + 1]
DCosSign(order) == <<1, -1, -1, 1>>[(order % 4) + 1]

\* the coefficient the order-th derivative puts in column k (k - 1 from 0)
\* when it starts from the coefficients c[1..n_basis]
TrueDerivTerm(b, k, order) ==
    LET n == k \div 2
        sine == k % 2 = 0
        from_sin == Term(DSinSign(order), 2 * n, n, Period(b), order)
        from_cos == Term(DCosSign(order), 2 * n + 1, n, Period(b), order)
    IN  IF k = 1 THEN ZeroTerm
        ELSE IF sine THEN (IF DSin(order) = "sin" THEN from_sin ELSE from_cos)
        ELSE (IF DCos(order) = "cos" THEN from_cos ELSE from_sin)

\* C27: for a Fourier basis the derivative-coefficient map of order p followed
\* by the map of order q (p, q >= 1) gives the coefficients of the map of
\* order p + q; every derivative has a zero constant coefficient, each
\* frequency-n pair is scaled by (n * 2 pi / period)^order with the sine and
\* cosine signs repeating with period 4 in the order, and the returned basis
\* is a copy with the same n_basis and period.
C27_DerivativeCoefficients ==
    (flast.op = "derivative")
        => LET b == flast.self IN
           /\ flast.deriv_coefs = DerivativeCoefs(b, flast.origin, flast.total)
           /\ flast.deriv_coefs[1] = ZeroTerm
           /\ \A k \in 1..b.n_basis :
                 /\ flast.deriv_coefs[k] = TrueDerivTerm(b, k, flast.total)
                 /\ DerivativeCoefs(b, flast.coefs, flast.order + 4)[k]
                       = [DerivativeCoefs(b, flast.coefs, flast.order)[k]
                             EXCEPT !.pow = @ + (IF k = 1 THEN 0 ELSE 4)]
           /\ flast.res.status = "ok"
           /\ flast.res.basis[1].kind = "Fourier"
           /\ flast.res.basis[1].n_basis = b.n_basis
           /\ Period(flast.res.basis[1]) = Period(b)

\* C27 witness: a derivative of order q was taken of the coefficients of a
\* derivative of order p, in a basis with at least one sine/cosine pair and
\* a period of its own.
C27_Witness ==
    /\ flast.op = "derivative"
    /\ flast.total > flast.order
    /\ flast.order % 2 = 1
    /\ flast.self.n_basis >= 3
    /\ flast.self._period # <<>>
    /\ flast.deriv_coefs[2].sign = -1

StatCalled == anova.op \in {"v_sample_stat", "v_asymptotic_stat"}

\* C21: v_sample_stat and v_asymptotic_stat raise ValueError whenever the
\* number of weights differs from fd.n_samples or fd is not an FData, and
\* v_asymptotic_stat also whenever some weight is zero; in all these cases
\* no statistic is returned.
C21_StatisticsRejectBadArguments ==
    (/\ StatCalled
     /\ \/ anova.fd.kind = "other"
        \/ Len(anova.weights) # anova.fd.n_samples
        \/ /\ anova.op = "v_asymptotic_stat"
           /\ \E i \in 1..Len(anova.weights) : anova.weights[i] = 0)
        => /\ anova.res.status = "ValueError"
           /\ ~anova.res.computed
           /\ anova.res.terms = <<>>

\* C21 witness: v_sample_stat was given more weights than samples, and
\* raised.
C21_Witness ==
    /\ anova.op = "v_sample_stat"
    /\ anova.fd.kind = "grid"
    /\ Len(anova.weights) > anova.fd.n_samples
    /\ anova.res.status = "ValueError"

\* v_asymptotic_stat refused a zero weight among as many weights as samples
C21_WitnessZeroWeight ==
    /\ anova.op = "v_asymptotic_stat"
    /\ anova.fd.kind = "basis"
    /\ Len(anova.weights) = anova.fd.n_samples
    /\ \E i \in 1..Len(anova.weights) : anova.weights[i] = 0
    /\ anova.res.msg = "All weights must be non-zero."

\* the arguments of the last oneway_anova call are invalid in one of the
\* ways the function is to reject, and cls is the error named for that way
InvalidAs(cls) ==
    LET args == anova.args
        all_fdata == \A k \in 1..Len(args) : args[k].kind # "other"
        one_type == all_fdata /\ \A k \in 1..Len(args) : args[k].kind = args[1].kind
    IN  \/ /\ cls = "ValueError"
           /\ \/ Len(args) < 2
              \/ ~all_fdata
              \/ anova.n_reps < 1
              \/ all_fdata /\ \E k \in 1..Len(args) :
                                 args[k].domain_range # args[1].domain_range
              \/ /\ one_type
                 /\ args[1].kind = "grid"
                 /\ \E k \in 1..Len(args) : args[k].sample_points # args[1].sample_points
        \/ /\ cls = "TypeError"
           /\ all_fdata /\ ~one_type
        \/ /\ cls = "NotImplementedError"
           /\ one_type
           /\ args[1].kind = "basis"
           /\ \E k \in 1..Len(args) : args[k].basis # args[1].basis

\* C22 (as stated): oneway_anova rejects invalid arguments before it computes
\* any mean, statistic or simulation: ValueError for fewer than two groups, a
\* non-FData argument, n_reps < 1, groups whose domain ranges differ and
\* FDataGrid groups with different sample points; TypeError for mixed FData
\* types; NotImplementedError for FDataBasis groups with different bases.
C22_AnovaRejectsBeforeComputing ==
    (anova.op = "oneway_anova"
        /\ \E cls \in {"ValueError", "TypeError", "NotImplementedError"} : InvalidAs(cls))
        => /\ ~anova.res.computed
           /\ InvalidAs(anova.res.status)

\* the summands of the statistic returned, as a set
StatTerms == {anova.res.terms[k] : k \in 1..Len(anova.res.terms)}
SamplePairs == {pr \in (1..anova.fd.n_samples) \X (1..anova.fd.n_samples) : pr[1] < pr[2]}

\* C23: v_sample_stat sums over every unordered pair of distinct samples
\* exactly once, weighting the p-th power of the distance between samples i
\* and j (i < j) by the weight of the lower-indexed sample i; v_asymptotic_stat
\* sums over the same pairs the p-th power of the distance between f_i and
\* f_j scaled by sqrt(w_i / w_j).
C23_StatisticsSumOverPairs ==
    (StatCalled /\ anova.res.status = "ok")
        => /\ Len(anova.res.terms) = Cardinality(SamplePairs)
           /\ Cardinality(StatTerms) = Cardinality(SamplePairs)
           /\ \A pr \in SamplePairs :
                 LET i == pr[1]
                     j == pr[2]
                 IN  IF anova.op = "v_sample_stat"
                     THEN \E t \in StatTerms :
                             /\ {t.left, t.right} = {i, j}
                             /\ t.coef = anova.weights[i]
                             /\ t.scale = RInt(1)
                             /\ t.p = anova.p
                     ELSE \E t \in StatTerms :
                             /\ t.left = i
                             /\ t.right = j
                             /\ t.coef = 1
                             /\ t.scale = Rat(anova.weights[i], anova.weights[j])
                             /\ t.p = anova.p

\* C23 witness: v_sample_stat summed over the three pairs of three samples
\* with three different weights.
C23_Witness ==
    /\ anova.op = "v_sample_stat"
    /\ anova.res.status = "ok"
    /\ anova.fd.n_samples = 3
    /\ anova.weights[1] < anova.weights[2]
    /\ anova.weights[2] < anova.weights[3]
    /\ Len(anova.res.terms) = 3

\* v_asymptotic_stat summed over three pairs with unequal weights
C23_WitnessAsymptotic ==
    /\ anova.op = "v_asymptotic_stat"
    /\ anova.res.status = "ok"
    /\ anova.fd.n_samples = 3
    /\ anova.weights = <<1, 2, 1>>

AllOpaque ==
    \A d \in 1..Len(display.displays) :
        \A i \in 1..display.displays[d].n : display.alpha[d][i] = Opaque

\* C28 (as stated): after any sequence of pick events on a plotted
\* MultipleDisplay, point_clicked is None exactly when every instance has
\* alpha 1 in every display, and whenever point_clicked is not None the
\* instance whose point was clicked last has alpha 1 in every display while
\* every other instance has alpha 0.1, also when consecutive clicks land in
\* different displays.  (Stated for the displays the object was built with.)
C28_PickHighlightsLastClicked ==
    (display.plotted /\ display.num_graphs = Len(display.displays))
        => /\ (display.point_clicked = <<>>) <=> AllOpaque
           /\ display.point_clicked # <<>>
                => \A d \in 1..Len(display.displays) :
                      \A i \in 1..display.displays[d].n :
                          display.alpha[d][i] =
                              IF i = display.point_clicked[1].inst THEN Opaque ELSE Faint

\* C29 (as stated): MultipleDisplay.plot raises ValueError whenever some held
\* display's num_instances differs from the first display's, including
\* displays added through add_displays after construction; equivalently
\* num_graphs equals the number of held displays in every state reachable by
\* add_displays.
C29_PlotChecksEveryDisplay ==
    /\ (/\ dlast.op = "plot"
        /\ \E d \in 1..Len(display.displays) :
              display.displays[d].n # display.displays[1].n)
          => dlast.res.status = "ValueError"
    /\ display.displays # <<>> => display.num_graphs = Len(display.displays)

\* the parameter an alias was declared for
ParamOf(alias) ==
    LET a == aliased.alias_assignments
    IN  a[CHOOSE k \in 1..Len(a) : alias \in a[k].aliases].param

\* the names of the last call that mean the k-th parameter
UsedFor(k) ==
    Names(alast.kwargs) \cap
        (aliased.alias_assignments[k].aliases \cup {aliased.alias_assignments[k].param})

\* C30 (as stated): for a class decorated with parameter_aliases every alias
\* property reads and writes the parameter it was declared an alias of, also
\* when aliases are declared for two or more different parameters; a call
\* passing two or more names with the same meaning raises ValueError, while a
\* single alias is passed on under the canonical parameter name.
C30_AliasesMeanTheirParameter ==
    LET a == aliased.alias_assignments IN
    /\ alast.op = "get" => alast.res.value = alast.before[ParamOf(alast.name)]
    /\ alast.op = "set"
          => aliased.attrs = [alast.before EXCEPT ![ParamOf(alast.name)] = alast.value]
    /\ alast.op = "call"
          => IF \E k \in 1..Len(a) : Cardinality(UsedFor(k)) >= 2
             THEN alast.res.status = "ValueError"
             ELSE \A k \in 1..Len(a) : \A name \in UsedFor(k) :
                     /\ <<a[k].param, ValueOf(alast.kwargs, name)>> \in alast.res.kwargs
                     /\ name # a[k].param => name \notin Names(alast.res.kwargs)

====
